---- MODULE Spec2Model ----
(***************************************************************************)
(* Model of the NFE Fazenda feed scraper and summarizer pipeline:          *)
(*   apps/langchain_integration/services/scrapers/base.py                  *)
(*   apps/langchain_integration/services/scrapers/nfe_fazenda.py           *)
(*   apps/langchain_integration/services/technical_note_processor.py       *)
(*   apps/jobs/tasks.py                                                    *)
(*                                                                         *)
(* The database holds TechnicalNote rows (notes), ProcessedSummary rows    *)
(* (summaries) and the NFE FAZENDA DataSource row (dataSource).  Django    *)
(* runs in autocommit mode, so every ORM create/save/exists is one atomic  *)
(* step; a job body is a sequence of such steps and two job bodies (the    *)
(* scheduled firing and a manual trigger) interleave between them.  The    *)
(* database itself is taken to be available: the only ORM failures are     *)
(* the ones the schema's constraints and field encoders produce.           *)
(***************************************************************************)
EXTENDS Integers, Sequences, FiniteSets, TLC

(* ------------------------------ bounds --------------------------------- *)
NUrls == 2
NContents == 3
MaxListing == 2
MaxRuns == 1
MaxUpstreamChanges == 1
MaxNotes == 3
MaxItems == 2
MaxSummRuns == 1
MaxTotalRuns == 3
MaxRetries == 3
MaxDelay == 2
MaxFetches == 2
MaxClock == 9
MaxSchedOps == 5
MaxRows == 3

URLs == 1..NUrls
Contents == 1..NContents
ScrapeProcs == {"scheduled", "manual"}
SummProcs == {"scheduled", "manual"}

(* --------------------------- program constants ------------------------- *)
PreviewCap == 1000
MinContentLen == 50
DefaultMaxRetries == 3
DefaultDelay == 1
DefaultMaxInstances == 3
JobSource == "NFE FAZENDA"
OtherSource == "OTHER"

VARIABLES
    listing,        \* upstream listing page: sequence of [url, hasDate]
    content,        \* upstream document behind each URL
    upVersion,      \* number of upstream changes so far
    dataSource,     \* the NFE FAZENDA DataSource row: absent/active/inactive
    notes,          \* TechnicalNote table in creation order
    spc,            \* position of each scrape job body
    runs,           \* scrape job invocations per trigger
    items,          \* scrape_new_items: items extracted from the listing
    idx,            \* scrape_new_items: index of the current item
    stats,          \* scrape_new_items: stats dict
    cur,            \* scrape_new_items: content/preview/hash of current item
    scrapeResult,   \* result dict returned by scrape_nfe_fazenda_job
    fetched,        \* history: outcome of the run's listing fetch
    raised,         \* history: [i, why] for each item whose handling raised
    prechecks,      \* history: [i, known, persisted] for each URL pre-check
    downloaded,     \* history: item indices a download was issued for
    persistedBy,    \* history: note ids created during the run
    verAtStart,     \* history: upVersion when the run fetched its listing
    clean,          \* history: no other run overlapped this run
    prevOf,         \* history: the run completed right before this one
    lastDone,       \* history: the most recently completed run
    secondRun,      \* history: stats of a run and of the run before it
    sourceSeen,     \* history: what the run's DataSource lookup found
    summaries,      \* ProcessedSummary table: technical_note id of each row
    mpc,            \* position of each summarize job body
    mruns,          \* summarize job invocations per trigger
    batch,          \* process_batch: the notes handed in (ids, in order)
    bidx,           \* process_batch: index of the current note
    bstats,         \* process_batch: stats dict with its results list
    errMsg,         \* process_technical_note: str(e) of the exception caught
    summResult,     \* result dict of process_pending_technical_notes_job
    llmCalls,       \* history: LLM invocations per note
    calls,          \* history: one record per process_technical_note call
    asked,          \* history: the max_items each summarize run was started with
    max_retries,    \* scraper instance: self.max_retries
    delay_between_requests, \* scraper instance: self.delay_between_requests (seconds)
    last_request_time,      \* scraper instance: self.last_request_time
    now,            \* time.time(), in seconds
    fpc,            \* position inside _make_request
    attempt,        \* _make_request: the loop variable
    wake,           \* end of the time.sleep in progress
    fcall,          \* history: number of _make_request calls so far
    reqs,           \* history: [call, attempt, t, out] for each session.get issued
    fouts,          \* history: how each _make_request call ended
    naps,           \* history: [call, attempt, secs] for each backoff time.sleep
    scheduler,      \* JobSchedulerService._scheduler: none, or its state stopped/running
    pending_jobs,   \* scheduler._pending_jobs: jobs added while stopped
    store,          \* DjangoJobStore: the stored job of each id, if any
    instances,      \* executor._instances: running executions of each job id
    nops,           \* history: number of JobSchedulerService calls so far
    lastOp,         \* history: the latest JobSchedulerService call
    lastEffective,  \* history: the latest scheduler.start()/shutdown() made
    maxReg,         \* history: largest max_instances each job id was added with
    mgrResult,      \* result dict of the latest NFEJobManager call
    pauseAsked,     \* history: job ids pause_job was called for, resume_job not since
    saved,          \* history: the jobs stored at the latest scheduler.shutdown()
    ppc,            \* position inside nfe_fazenda_full_pipeline_job
    pipeResult,     \* result dict of nfe_fazenda_full_pipeline_job
    cmd             \* the start_jobs management command process

scrapeVars == <<listing, content, upVersion, dataSource, spc, runs,
                items, idx, stats, cur, scrapeResult, fetched, raised, prechecks,
                downloaded, persistedBy, verAtStart, clean, prevOf, lastDone,
                secondRun, sourceSeen>>

summVars == <<summaries, mpc, mruns, asked, batch, bidx, bstats, errMsg, summResult,
              llmCalls, calls>>

fetchVars == <<max_retries, delay_between_requests, last_request_time, now, fpc,
               attempt, wake, fcall, reqs, fouts, naps>>

schedVars == <<scheduler, pending_jobs, store, instances, nops, lastOp, lastEffective,
               maxReg, mgrResult, pauseAsked, saved>>

pipeJobVars == <<ppc, pipeResult>>

auxVars == <<fetchVars, schedVars, pipeJobVars, cmd>>

vars == <<notes, scrapeVars, summVars, auxVars>>

(* ------------------------------ values --------------------------------- *)
(* Whether the listing row of a URL carries a publication date that
   _extract_date_from_context can parse. *)
HasDate(u) == u % 2 = 0

Items == {[url |-> u, hasDate |-> HasDate(u)] : u \in URLs}

RECURSIVE SeqsUpTo(_, _)
SeqsUpTo(S, n) ==
    IF n = 0 THEN {<<>>}
    ELSE LET shorter == SeqsUpTo(S, n - 1)
         IN shorter \cup {Append(s, x) : s \in {t \in shorter : Len(t) = n - 1}, x \in S}

Min(a, b) == IF a < b THEN a ELSE b
Max(a, b) == IF a > b THEN a ELSE b

(* A text is described by its length and by how many whitespace characters
   it starts and ends with; whitespace inside the body does not end a slice. *)
Text(n, lead, trail) == [len |-> n, lead |-> lead, trail |-> trail]

SliceWhole(t, k) == t

(* preview[:k] *)
Slice(t, k) ==
    IF t.len <= k THEN t
    ELSE Text(k, Min(t.lead, k), Max(0, t.trail - (t.len - k)))

(* len(content.strip()) *)
StripLen(t) == Max(0, t.len - t.lead - t.trail)

(* Bytes that neither PyPDF2 nor pdfplumber can read. *)
Unreadable(c) == c = 2

(* _extract_text_from_pdf when both libraries raised: the bracketed message
   "[Erro na extracao de texto: ...]", returned in place of the text. *)
PlaceholderPreview == [len |-> 40, lead |-> 0, trail |-> 0]

(* The preview _get_content_from_item extracts from each upstream document. *)
PreviewOf(c) ==
    CASE c = 1 -> Text(3000, 0, 0)
      [] Unreadable(c) -> PlaceholderPreview
      [] c = 3 -> Text(1010, 0, 20)
      [] c = 4 -> Text(0, 0, 0)
      [] OTHER -> Text(60, 5, 10)

(* hashlib.md5(content).hexdigest(): a digest, distinct for distinct bytes *)
_generate_content_hash(c) == 100 + c

NoStats == [total_found |-> 0, new_items |-> 0, duplicates_skipped |-> 0, errors |-> 0]
NoCur == [content |-> 0, hash |-> 0]
NoRun == [ok |-> FALSE, ver |-> 0, stats |-> NoStats, dlFailed |-> FALSE]
NoPair == [applies |-> FALSE, first |-> NoStats, second |-> NoStats, dlFailed |-> FALSE]
NoResult == [returned |-> FALSE, success |-> FALSE, error |-> "", stats |-> NoStats]

(* Messages are kept as word sequences so that "phrase in message" is computed. *)
AlreadyMsg == <<"Nota", "tecnica", "ja", "foi", "processada">>
InsufficientMsg == <<"Conteudo", "insuficiente", "para", "processamento">>
LLMErrorMsg == <<"Invalid", "json", "output">>
IntegrityMsg == <<"UNIQUE", "constraint", "failed">>
AttributeMsg == <<"list", "object", "has", "no", "attribute", "get">>
SkipPhrase == <<"ja", "foi", "processada">>

(* phrase in message *)
Contains(phrase, msg) ==
    \E i \in 1..(Len(msg) - Len(phrase) + 1) : SubSeq(msg, i, i + Len(phrase) - 1) = phrase

NoBatchStats == [total |-> 0, processed |-> 0, errors |-> 0, skipped |-> 0, results |-> <<>>]
NoSummResult == [returned |-> FALSE, success |-> FALSE, error |-> <<>>, stats |-> NoBatchStats]

(* _extract_items_from_listing: drop items whose URL was already seen *)
RECURSIVE UniqueItems(_, _, _)
UniqueItems(its, seen, acc) ==
    IF its = <<>> THEN acc
    ELSE IF Head(its).url \in seen
         THEN UniqueItems(Tail(its), seen, acc)
         ELSE UniqueItems(Tail(its), seen \cup {Head(its).url}, Append(acc, Head(its)))

_extract_items_keep_all(page) == page

(* _extract_items_from_listing: the items of the links, then the seen_urls pass *)
_extract_items_from_listing(page) == UniqueItems(page, {}, <<>>)

UrlExistsNever(src, u) == FALSE

(* TechnicalNote.objects.filter(source=..., original_url=...).exists() *)
UrlExists(src, u) == \E i \in 1..Len(notes) : notes[i].source = src /\ notes[i].url = u

(* TechnicalNote.objects.filter(document_hash=content_hash).exists() *)
_is_duplicate(h) == \E i \in 1..Len(notes) : notes[i].hash = h

(* History: a note of this source with this URL is in the table. *)
Persisted(src, u) == \E i \in DOMAIN notes : notes[i].source = src /\ notes[i].url = u

HashUniqueOff(h) == TRUE

(* unique=True on TechnicalNote.document_hash: whether the INSERT is accepted *)
HashUniqueOk(h) == \A i \in 1..Len(notes) : notes[i].hash # h

(* _create_technical_note: the row TechnicalNote.objects.create builds *)
_create_technical_note(src, u, h, preview, st) ==
    [source |-> src, url |-> u, hash |-> h, preview |-> preview, status |-> st]

(* ProcessingLog.objects.create(details={"item_info": item_info}): the details
   JSONField is encoded with the default JSON encoder, which rejects the
   datetime.date that _extract_date_from_context puts in publication_date. *)
LogDetailsEncodable(item) == ~item.hasDate

(* Job invocations so far, over both jobs and both triggers. *)
TotalRuns ==
    runs["scheduled"] + runs["manual"] + mruns["scheduled"] + mruns["manual"]

Active(p) == spc[p] \in {"mksource", "listing", "precheck", "download", "create"}

(* ------------------------------- Init ---------------------------------- *)
InitNotes ==
    {<<>>} \cup
    {<<_create_technical_note(OtherSource, 1, _generate_content_hash(c),
                              Slice(PreviewOf(c), PreviewCap), "pending")>> : c \in Contents}

(* No scrape run has been started. *)
InitScrapeIdle ==
    /\ upVersion = 0
    /\ spc = [p \in ScrapeProcs |-> "idle"]
    /\ runs = [p \in ScrapeProcs |-> 0]
    /\ items = [p \in ScrapeProcs |-> <<>>]
    /\ idx = [p \in ScrapeProcs |-> 0]
    /\ stats = [p \in ScrapeProcs |-> NoStats]
    /\ cur = [p \in ScrapeProcs |-> NoCur]
    /\ scrapeResult = [p \in ScrapeProcs |-> NoResult]
    /\ fetched = [p \in ScrapeProcs |-> "none"]
    /\ raised = [p \in ScrapeProcs |-> {}]
    /\ prechecks = [p \in ScrapeProcs |-> {}]
    /\ downloaded = [p \in ScrapeProcs |-> {}]
    /\ persistedBy = [p \in ScrapeProcs |-> {}]
    /\ verAtStart = [p \in ScrapeProcs |-> 0]
    /\ clean = [p \in ScrapeProcs |-> FALSE]
    /\ prevOf = [p \in ScrapeProcs |-> NoRun]
    /\ lastDone = NoRun
    /\ secondRun = [p \in ScrapeProcs |-> NoPair]
    /\ sourceSeen = [p \in ScrapeProcs |-> "none"]

InitScrape ==
    /\ listing \in SeqsUpTo(Items, MaxListing)
    /\ content \in [URLs -> Contents]
    /\ dataSource \in {"absent", "active", "inactive"}
    /\ notes \in InitNotes
    /\ InitScrapeIdle

InitSummIdle ==
    /\ summaries = <<>>
    /\ mpc = [p \in SummProcs |-> "idle"]
    /\ mruns = [p \in SummProcs |-> 0]
    /\ batch = [p \in SummProcs |-> <<>>]
    /\ bidx = [p \in SummProcs |-> 0]
    /\ bstats = [p \in SummProcs |-> NoBatchStats]
    /\ errMsg = [p \in SummProcs |-> <<>>]
    /\ summResult = [p \in SummProcs |-> NoSummResult]
    /\ llmCalls = [n \in 1..Len(notes) |-> 0]
    /\ calls = [p \in SummProcs |-> <<>>]
    /\ asked = [p \in SummProcs |-> 0]

(* Scraping starts from a database that holds at most a note of another source. *)
(* A scraper instance that has issued no request yet; the clock is far
   enough from last_request_time = 0 that the first request never waits. *)
InitFetchIdle ==
    /\ last_request_time = 0
    /\ now = MaxDelay
    /\ fpc = "idle"
    /\ attempt = 0
    /\ wake = 0
    /\ fcall = 0
    /\ reqs = <<>>
    /\ fouts = <<>>
    /\ naps = <<>>

(* BaseFeedScraper.__init__ with its default arguments. *)
InitFetchDefault ==
    /\ max_retries = DefaultMaxRetries
    /\ delay_between_requests = DefaultDelay
    /\ InitFetchIdle

SCRAPING_JOB_ID == "nfe_fazenda_scraping"
PROCESSING_JOB_ID == "nfe_technical_notes_processing"
JobIds == {SCRAPING_JOB_ID, PROCESSING_JOB_ID}
JobIdSeq == <<SCRAPING_JOB_ID, PROCESSING_JOB_ID>>
NoJob == [id |-> "", ver |-> 0, max_instances |-> 0]
NoOp == [op |-> "none", id |-> "", wasCreated |-> FALSE, wasRunning |-> FALSE,
         effective |-> FALSE, lookupError |-> FALSE, raised |-> FALSE,
         before |-> <<>>, ver |-> 0]

NoMgr == [op |-> "none", id |-> "", success |-> FALSE, error |-> <<>>,
          scraping_job |-> "", processing_job |-> "", errors |-> <<>>,
          failed |-> {}, jobs |-> [j \in JobIds |-> ""],
          scheduler_running |-> FALSE, listed |-> {}, removed |-> <<>>]
NoSaved == [valid |-> FALSE, restarted |-> FALSE, jobs |-> {}]

PauseAttrMsg == <<"JobSchedulerService", "object", "has", "no", "attribute", "pause_job">>
ResumeAttrMsg == <<"JobSchedulerService", "object", "has", "no", "attribute", "resume_job">>
JobGetAttrMsg == <<"Job", "object", "has", "no", "attribute", "get">>
AddFailMsg == <<"database", "is", "locked">>
ScrapingErrPrefix == <<"Erro", "ao", "configurar", "job", "de", "scraping">>
ProcessingErrPrefix == <<"Erro", "ao", "configurar", "job", "de", "processamento">>

(* The class as imported: _scheduler = None, nothing stored. *)
InitSchedIdle ==
    /\ scheduler = "none"
    /\ pending_jobs = <<>>
    /\ store = [j \in JobIds |-> NoJob]
    /\ instances = [j \in JobIds |-> 0]
    /\ nops = 0
    /\ lastOp = NoOp
    /\ lastEffective = "none"
    /\ maxReg = [j \in JobIds |-> 0]
    /\ mgrResult = NoMgr
    /\ pauseAsked = {}
    /\ saved = NoSaved

NoEntry == [set |-> FALSE, success |-> FALSE, error |-> ""]
NoProcEntry == [set |-> FALSE, success |-> FALSE, error |-> <<>>]
NoPipe == [returned |-> FALSE, success |-> FALSE, error |-> "",
           scraping |-> NoEntry, processing |-> NoProcEntry]

(* python manage.py start_jobs is not running. *)
NoCmd == [pc |-> "off", mode |-> "", signal |-> "", reported |-> FALSE,
          found |-> FALSE, shown |-> "", runningAtExit |-> FALSE]

(* nfe_fazenda_full_pipeline_job has not been called. *)
InitPipeIdle ==
    /\ ppc = "idle"
    /\ pipeResult = NoPipe
    /\ cmd = NoCmd

InitAux ==
    /\ InitFetchDefault
    /\ InitSchedIdle
    /\ InitPipeIdle

InitScrapeDb ==
    /\ InitScrape
    /\ InitSummIdle
    /\ InitAux

(* Note tables that scraping leaves behind: pending notes of the job's
   source with pairwise distinct documents. *)
ScrapedTables ==
    {[i \in 1..Len(cs) |->
        _create_technical_note(JobSource, i, _generate_content_hash(cs[i]),
                               Slice(PreviewOf(cs[i]), PreviewCap), "pending")] :
     cs \in {t \in SeqsUpTo(Contents, MaxNotes) :
               Len(t) >= 1 /\ \A i, j \in 1..Len(t) : i # j => t[i] # t[j]}}

(* Summarizing starts from a database that scraping has filled. *)
InitSummDb ==
    /\ listing = <<>>
    /\ content = [u \in URLs |-> 1]
    /\ upVersion = 0
    /\ dataSource = "active"
    /\ notes \in ScrapedTables
    /\ spc = [p \in ScrapeProcs |-> "idle"]
    /\ runs = [p \in ScrapeProcs |-> 0]
    /\ items = [p \in ScrapeProcs |-> <<>>]
    /\ idx = [p \in ScrapeProcs |-> 0]
    /\ stats = [p \in ScrapeProcs |-> NoStats]
    /\ cur = [p \in ScrapeProcs |-> NoCur]
    /\ scrapeResult = [p \in ScrapeProcs |-> NoResult]
    /\ fetched = [p \in ScrapeProcs |-> "none"]
    /\ raised = [p \in ScrapeProcs |-> {}]
    /\ prechecks = [p \in ScrapeProcs |-> {}]
    /\ downloaded = [p \in ScrapeProcs |-> {}]
    /\ persistedBy = [p \in ScrapeProcs |-> {}]
    /\ verAtStart = [p \in ScrapeProcs |-> 0]
    /\ clean = [p \in ScrapeProcs |-> FALSE]
    /\ prevOf = [p \in ScrapeProcs |-> NoRun]
    /\ lastDone = NoRun
    /\ secondRun = [p \in ScrapeProcs |-> NoPair]
    /\ sourceSeen = [p \in ScrapeProcs |-> "none"]
    /\ InitSummIdle
    /\ InitAux

(* ------------------------- scrape job (tasks.py) ----------------------- *)
InactiveMsg == "Fonte de dados inativa"
SourceIntegrityMsg == "UNIQUE constraint failed: datasource.name"

FailureSilent(msg) == [returned |-> TRUE, success |-> FALSE, error |-> "", stats |-> NoStats]

(* The failure dict of scrape_nfe_fazenda_job: success False and the message. *)
Failure(msg) == [returned |-> TRUE, success |-> FALSE, error |-> msg, stats |-> NoStats]

Success(st) == [returned |-> TRUE, success |-> TRUE, error |-> "", stats |-> st]

(* scrape_nfe_fazenda_job up to its DataSource lookup: DataSource.objects.get
   finds the row or raises DoesNotExist; an inactive source ends the job. *)
ScrapeJobStart(p) ==
    /\ spc[p] = "idle"
    /\ runs[p] < MaxRuns
    /\ TotalRuns < MaxTotalRuns
    /\ runs' = [runs EXCEPT ![p] = @ + 1]
    /\ sourceSeen' = [sourceSeen EXCEPT ![p] = dataSource]
    /\ items' = [items EXCEPT ![p] = <<>>]
    /\ idx' = [idx EXCEPT ![p] = 0]
    /\ stats' = [stats EXCEPT ![p] = NoStats]
    /\ cur' = [cur EXCEPT ![p] = NoCur]
    /\ fetched' = [fetched EXCEPT ![p] = "none"]
    /\ raised' = [raised EXCEPT ![p] = {}]
    /\ prechecks' = [prechecks EXCEPT ![p] = {}]
    /\ downloaded' = [downloaded EXCEPT ![p] = {}]
    /\ persistedBy' = [persistedBy EXCEPT ![p] = {}]
    /\ secondRun' = [secondRun EXCEPT ![p] = NoPair]
    /\ IF dataSource = "inactive"
       THEN /\ scrapeResult' = [scrapeResult EXCEPT ![p] = Failure(InactiveMsg)]
            /\ UNCHANGED <<spc, verAtStart, clean, prevOf>>
       ELSE /\ scrapeResult' = [scrapeResult EXCEPT ![p] = NoResult]
            /\ spc' = [spc EXCEPT ![p] = IF dataSource = "absent" THEN "mksource"
                                         ELSE "listing"]
            /\ verAtStart' = [verAtStart EXCEPT ![p] = upVersion]
            /\ clean' = [q \in ScrapeProcs |->
                           IF q = p THEN \A r \in ScrapeProcs : ~Active(r)
                           ELSE IF Active(q) THEN FALSE ELSE clean[q]]
            /\ prevOf' = [prevOf EXCEPT ![p] =
                           IF \A r \in ScrapeProcs : ~Active(r) THEN lastDone ELSE NoRun]
    /\ UNCHANGED <<listing, content, upVersion, dataSource, notes, lastDone, summVars>>
    /\ UNCHANGED auxVars

CountDuplicateAsNew(st) == [st EXCEPT !.new_items = @ + 1]

(* stats["duplicates_skipped"] += 1 *)
CountDuplicate(st) == [st EXCEPT !.duplicates_skipped = @ + 1]

(* scrape_new_items returns stats; scrape_nfe_fazenda_job wraps them. *)
ReturnStats(p, st) ==
    LET dl == \/ \E r \in raised[p] : r.why = "download"
              \/ spc[p] = "download" /\ st.errors > stats[p].errors
    IN /\ scrapeResult' = [scrapeResult EXCEPT ![p] = Success(st)]
       /\ lastDone' = [ok |-> clean[p] /\ verAtStart[p] = upVersion,
                       ver |-> verAtStart[p], stats |-> st, dlFailed |-> dl]
       /\ secondRun' = [secondRun EXCEPT ![p] =
                          IF /\ clean[p] /\ prevOf[p].ok
                             /\ prevOf[p].ver = upVersion /\ verAtStart[p] = upVersion
                          THEN [applies |-> TRUE, first |-> prevOf[p].stats, second |-> st,
                                dlFailed |-> dl \/ prevOf[p].dlFailed]
                          ELSE NoPair]

NextItemBreakOnError(p, st) ==
    /\ stats' = [stats EXCEPT ![p] = st]
    /\ cur' = [cur EXCEPT ![p] = NoCur]
    /\ idx' = [idx EXCEPT ![p] = @ + 1]
    /\ IF idx[p] < Len(items[p]) /\ st.errors = stats[p].errors
       THEN /\ spc' = [spc EXCEPT ![p] = "precheck"]
            /\ UNCHANGED <<scrapeResult, lastDone, secondRun>>
       ELSE /\ spc' = [spc EXCEPT ![p] = "idle"]
            /\ ReturnStats(p, st)

(* End of one iteration of the item loop with the stats it leaves. *)
NextItem(p, st) ==
    /\ stats' = [stats EXCEPT ![p] = st]
    /\ cur' = [cur EXCEPT ![p] = NoCur]
    /\ idx' = [idx EXCEPT ![p] = @ + 1]
    /\ IF idx[p] < Len(items[p])
       THEN /\ spc' = [spc EXCEPT ![p] = "precheck"]
            /\ UNCHANGED <<scrapeResult, lastDone, secondRun>>
       ELSE /\ spc' = [spc EXCEPT ![p] = "idle"]
            /\ ReturnStats(p, st)

RaiseToJobSwallowed(p, msg) ==
    /\ spc' = [spc EXCEPT ![p] = "idle"]
    /\ scrapeResult' = [scrapeResult EXCEPT ![p] = Success(NoStats)]
    /\ lastDone' = NoRun

RaiseToJobEscapes(p, msg) ==
    /\ spc' = [spc EXCEPT ![p] = "idle"]
    /\ scrapeResult' = [scrapeResult EXCEPT ![p] = NoResult]
    /\ lastDone' = NoRun

(* An exception leaves scrape_new_items: the except handler of
   scrape_nfe_fazenda_job turns it into a failure dict. *)
RaiseToJob(p, msg) ==
    /\ spc' = [spc EXCEPT ![p] = "idle"]
    /\ scrapeResult' = [scrapeResult EXCEPT ![p] = Failure(msg)]
    /\ lastDone' = NoRun

SourceNameUniqueOff == TRUE

(* unique=True on DataSource.name: whether the INSERT is accepted *)
SourceNameUniqueOk == dataSource = "absent"

(* scrape_nfe_fazenda_job after DoesNotExist: DataSource.objects.create; when
   another run has created the row meanwhile the insert raises IntegrityError,
   which the job's except handler reports. *)
CreateSource(p) ==
    /\ spc[p] = "mksource"
    /\ IF SourceNameUniqueOk
       THEN /\ dataSource' = "active"
            /\ spc' = [spc EXCEPT ![p] = "listing"]
            /\ UNCHANGED <<scrapeResult, lastDone>>
       ELSE /\ RaiseToJob(p, SourceIntegrityMsg)
            /\ UNCHANGED dataSource
    /\ UNCHANGED <<listing, content, upVersion, notes, runs, items, idx, stats, cur,
                   fetched, raised, prechecks, downloaded, persistedBy, verAtStart,
                   clean, prevOf, secondRun, sourceSeen, summVars>>
    /\ UNCHANGED auxVars

(* scrape_new_items steps 1-2: fetch the listing page and extract the items;
   a failed fetch is re-raised and reported by scrape_nfe_fazenda_job. *)
FetchListing(p) ==
    /\ spc[p] = "listing"
    /\ \E ok \in BOOLEAN :
         IF ok
         THEN LET its == _extract_items_from_listing(listing)
                  st == [NoStats EXCEPT !.total_found = Len(its)]
              IN /\ fetched' = [fetched EXCEPT ![p] = "ok"]
                 /\ items' = [items EXCEPT ![p] = its]
                 /\ stats' = [stats EXCEPT ![p] = st]
                 /\ idx' = [idx EXCEPT ![p] = 1]
                 /\ IF its = <<>>
                    THEN /\ spc' = [spc EXCEPT ![p] = "idle"]
                         /\ ReturnStats(p, st)
                    ELSE /\ spc' = [spc EXCEPT ![p] = "precheck"]
                         /\ UNCHANGED <<scrapeResult, lastDone, secondRun>>
         ELSE /\ fetched' = [fetched EXCEPT ![p] = "failed"]
              /\ RaiseToJob(p, "listing request failed")
              /\ UNCHANGED <<items, stats, idx, secondRun>>
    /\ UNCHANGED <<listing, content, upVersion, dataSource, notes, runs, cur, raised,
                   prechecks, downloaded, persistedBy, verAtStart, clean, prevOf, sourceSeen, summVars>>
    /\ UNCHANGED auxVars

(* Item loop, URL pre-check. *)
UrlPrecheck(p) ==
    /\ spc[p] = "precheck"
    /\ LET it == items[p][idx[p]]
           known == UrlExists(JobSource, it.url)
       IN /\ prechecks' = [prechecks EXCEPT ![p] =
                             @ \cup {[i |-> idx[p], known |-> known,
                                      persisted |-> Persisted(JobSource, it.url)]}]
          /\ IF known
             THEN NextItem(p, CountDuplicate(stats[p]))
             ELSE /\ spc' = [spc EXCEPT ![p] = "download"]
                  /\ UNCHANGED <<stats, cur, idx, scrapeResult, lastDone, secondRun>>
    /\ UNCHANGED <<listing, content, upVersion, dataSource, notes, runs, items, raised,
                   fetched, downloaded, persistedBy, verAtStart, clean, prevOf, sourceSeen, summVars>>
    /\ UNCHANGED auxVars

(* Item loop: _get_content_from_item, _generate_content_hash, _is_duplicate. *)
DownloadItem(p) ==
    /\ spc[p] = "download"
    /\ downloaded' = [downloaded EXCEPT ![p] = @ \cup {idx[p]}]
    /\ \E ok \in BOOLEAN :
         IF ~ok
         THEN /\ raised' = [raised EXCEPT ![p] = @ \cup {[i |-> idx[p], why |-> "download"]}]
              /\ NextItem(p, [stats[p] EXCEPT !.errors = @ + 1])
         ELSE LET c == content[items[p][idx[p]].url]
                  h == _generate_content_hash(c)
              IN IF _is_duplicate(h)
                 THEN /\ NextItem(p, CountDuplicate(stats[p]))
                      /\ UNCHANGED raised
                 ELSE /\ cur' = [cur EXCEPT ![p] = [content |-> c, hash |-> h]]
                      /\ spc' = [spc EXCEPT ![p] = "create"]
                      /\ UNCHANGED <<raised, stats, idx, scrapeResult, lastDone, secondRun>>
    /\ UNCHANGED <<listing, content, upVersion, dataSource, notes, runs, items,
                   fetched, prechecks, persistedBy, verAtStart, clean, prevOf, sourceSeen, summVars>>
    /\ UNCHANGED auxVars

(* Item loop: _create_technical_note, then _log_operation for the new note. *)
CreateNote(p) ==
    /\ spc[p] = "create"
    /\ LET it == items[p][idx[p]]
           row == _create_technical_note(JobSource, it.url, cur[p].hash,
                                         Slice(PreviewOf(cur[p].content), PreviewCap), "pending")
       IN IF ~HashUniqueOk(cur[p].hash)
          THEN /\ raised' = [raised EXCEPT ![p] = @ \cup {[i |-> idx[p], why |-> "unique"]}]
               /\ NextItem(p, [stats[p] EXCEPT !.errors = @ + 1])
               /\ UNCHANGED <<notes, persistedBy, llmCalls>>
          ELSE /\ notes' = Append(notes, row)
               /\ llmCalls' = Append(llmCalls, 0)
               /\ persistedBy' = [persistedBy EXCEPT ![p] = @ \cup {Len(notes) + 1}]
               /\ IF LogDetailsEncodable(it)
                  THEN /\ NextItem(p, [stats[p] EXCEPT !.new_items = @ + 1])
                       /\ UNCHANGED raised
                  ELSE /\ raised' = [raised EXCEPT ![p] = @ \cup {[i |-> idx[p], why |-> "log"]}]
                       /\ NextItem(p, [stats[p] EXCEPT !.errors = @ + 1])
    /\ UNCHANGED <<listing, content, upVersion, dataSource, runs, items, prechecks,
                   fetched, downloaded, verAtStart, clean, prevOf, sourceSeen>>
    /\ UNCHANGED <<summaries, mpc, mruns, asked, batch, bidx, bstats, errMsg, summResult, calls>>
    /\ UNCHANGED auxVars

(* The portal publishes a new item or replaces the document behind a URL. *)
UpstreamChange ==
    /\ upVersion < MaxUpstreamChanges
    /\ upVersion' = upVersion + 1
    /\ \/ \E u \in URLs, c \in Contents :
            /\ c # content[u]
            /\ content' = [content EXCEPT ![u] = c]
            /\ UNCHANGED listing
       \/ \E it \in Items :
            /\ Len(listing) < MaxListing
            /\ listing' = <<it>> \o listing
            /\ UNCHANGED content
    /\ UNCHANGED <<dataSource, notes, spc, runs, items, idx, stats, cur, scrapeResult,
                   fetched, raised, prechecks, downloaded, persistedBy, verAtStart, clean,
                   prevOf, lastDone, secondRun, sourceSeen, summVars>>
    /\ UNCHANGED auxVars

ScrapeNext ==
    \/ \E p \in ScrapeProcs : ScrapeJobStart(p)
    \/ \E p \in ScrapeProcs : CreateSource(p)
    \/ \E p \in ScrapeProcs : FetchListing(p)
    \/ \E p \in ScrapeProcs : UrlPrecheck(p)
    \/ \E p \in ScrapeProcs : DownloadItem(p)
    \/ \E p \in ScrapeProcs : CreateNote(p)
    \/ UpstreamChange

(* ---------------- summarize job (technical_note_processor.py) ---------- *)
NoteIds == [i \in 1..Len(notes) |-> i]

IsPending(n) == notes[n].status = "pending"

(* get_pending_notes: filter(status="pending").order_by("created_at")[:limit] *)
get_pending_notes(limit) ==
    LET pending == SelectSeq(NoteIds, IsPending)
    IN IF limit # 0 THEN SubSeq(pending, 1, Min(limit, Len(pending))) ELSE pending

HasSummaryNever(n) == FALSE

(* hasattr(technical_note, "summary"): the reverse one-to-one lookup *)
HasSummary(n) == \E i \in 1..Len(summaries) : summaries[i] = n

SummaryUniqueOff(n) == TRUE

(* OneToOneField ProcessedSummary.technical_note: whether the INSERT is accepted *)
SummaryUniqueOk(n) == \A i \in 1..Len(summaries) : summaries[i] # n

(* not content or len(content.strip()) < 50 *)
InsufficientContent(t) == t.len = 0 \/ StripLen(t) < MinContentLen

CurNote(p) == batch[p][bidx[p]]

NewCall(n) ==
    [note |-> n, pre |-> notes[n].status, post |-> "",
     hadSummary |-> (\E i \in DOMAIN summaries : summaries[i] = n),
     insufficient |-> FALSE, llm |-> "none", created |-> FALSE, done |-> FALSE,
     success |-> FALSE, error |-> <<>>]

LastCall(p) == calls[p][Len(calls[p])]

(* The call's record once it has returned res, with the note's status then. *)
Returned(rec, res) ==
    [rec EXCEPT !.post = notes'[rec.note].status, !.done = TRUE,
                !.success = res.success, !.error = res.error]

SetStatusNoSave(n, st) == notes

(* technical_note.status = st; technical_note.save() *)
SetStatus(n, st) == [notes EXCEPT ![n].status = st]

SummSuccess(st) == [returned |-> TRUE, success |-> TRUE, error |-> <<>>, stats |-> st]

ClassifyNoSkip(st, res) ==
    IF res.success
    THEN [st EXCEPT !.processed = @ + 1]
    ELSE [st EXCEPT !.errors = @ + 1]

(* process_batch: count one result as processed, skipped or error. *)
Classify(st, res) ==
    IF res.success
    THEN [st EXCEPT !.processed = @ + 1]
    ELSE IF Contains(SkipPhrase, res.error)
         THEN [st EXCEPT !.skipped = @ + 1]
         ELSE [st EXCEPT !.errors = @ + 1]

(* process_batch: record the result of one note, classify it, go on or return;
   process_pending_technical_notes_job wraps the stats. *)
BatchNext(p, res) ==
    LET st1 == [bstats[p] EXCEPT !.results = Append(@, res)]
        st2 == Classify(st1, res)
    IN /\ bstats' = [bstats EXCEPT ![p] = st2]
       /\ bidx' = [bidx EXCEPT ![p] = @ + 1]
       /\ IF bidx[p] < Len(batch[p])
          THEN /\ mpc' = [mpc EXCEPT ![p] = "check"]
               /\ UNCHANGED summResult
          ELSE /\ mpc' = [mpc EXCEPT ![p] = "idle"]
               /\ summResult' = [summResult EXCEPT ![p] = SummSuccess(st2)]

(* process_pending_technical_notes_job(max_items) from its first statement:
   read the pending notes, start the batch. *)
BeginSummRun(p, max_items) ==
    /\ mpc[p] = "idle"
    /\ calls' = [calls EXCEPT ![p] = <<>>]
    /\ errMsg' = [errMsg EXCEPT ![p] = <<>>]
    /\ LET pending_notes == get_pending_notes(max_items)
       IN /\ asked' = [asked EXCEPT ![p] = max_items]
          /\ batch' = [batch EXCEPT ![p] = pending_notes]
          /\ IF pending_notes = <<>>
             THEN /\ summResult' = [summResult EXCEPT ![p] = SummSuccess(NoBatchStats)]
                  /\ bidx' = [bidx EXCEPT ![p] = 0]
                  /\ bstats' = [bstats EXCEPT ![p] = NoBatchStats]
                  /\ UNCHANGED mpc
             ELSE /\ summResult' = [summResult EXCEPT ![p] = NoSummResult]
                  /\ bidx' = [bidx EXCEPT ![p] = 1]
                  /\ bstats' = [bstats EXCEPT ![p] =
                                  [NoBatchStats EXCEPT !.total = Len(pending_notes)]]
                  /\ mpc' = [mpc EXCEPT ![p] = "check"]
    /\ UNCHANGED <<notes, summaries, llmCalls, scrapeVars>>
    /\ UNCHANGED auxVars

(* One of the counted invocations of the job. *)
SummJobStartWith(p, max_items) ==
    /\ mruns[p] < MaxSummRuns
    /\ TotalRuns < MaxTotalRuns
    /\ mruns' = [mruns EXCEPT ![p] = @ + 1]
    /\ BeginSummRun(p, max_items)

(* The job as the scheduler or a caller starts it, with some max_items. *)
SummJobStart(p) == \E limit \in 0..MaxItems : SummJobStartWith(p, limit)

(* process_technical_note: the "already processed" guard. *)
CheckSummary(p) ==
    /\ mpc[p] = "check"
    /\ UNCHANGED <<notes, summaries, llmCalls>>
    /\ LET n == CurNote(p)
           res == [success |-> FALSE, error |-> AlreadyMsg, note_id |-> n]
       IN IF HasSummary(n)
          THEN /\ calls' = [calls EXCEPT ![p] = Append(@, Returned(NewCall(n), res))]
               /\ BatchNext(p, res)
          ELSE /\ calls' = [calls EXCEPT ![p] = Append(@, NewCall(n))]
               /\ mpc' = [mpc EXCEPT ![p] = "mark"]
               /\ UNCHANGED <<bstats, bidx, summResult>>
    /\ UNCHANGED <<mruns, asked, batch, errMsg, scrapeVars>>
    /\ UNCHANGED auxVars

(* process_technical_note: status = "processing"; save(); then the content guard. *)
MarkProcessing(p) ==
    /\ mpc[p] = "mark"
    /\ LET n == CurNote(p)
       IN /\ notes' = SetStatus(n, "processing")
          /\ IF InsufficientContent(notes[n].preview)
             THEN /\ errMsg' = [errMsg EXCEPT ![p] = InsufficientMsg]
                  /\ calls' = [calls EXCEPT ![p][Len(calls[p])].insufficient = TRUE]
                  /\ mpc' = [mpc EXCEPT ![p] = "except"]
             ELSE /\ mpc' = [mpc EXCEPT ![p] = "llm"]
                  /\ UNCHANGED <<errMsg, calls>>
    /\ UNCHANGED <<summaries, mruns, asked, batch, bidx, bstats, summResult, llmCalls, scrapeVars>>
    /\ UNCHANGED auxVars

(* process_technical_note: self.process(...) and what follows up to the next
   write: a failure dict from _handle_error sets "error" and is returned as is;
   a JSON value that is no object makes summary_data.get raise; otherwise the
   ProcessedSummary row is created, unless the one-to-one constraint rejects it. *)
ProcessWithLLM(p) ==
    /\ mpc[p] = "llm"
    /\ LET n == CurNote(p)
       IN \E out \in {"ok", "nondict", "fail"} :
            /\ llmCalls' = [llmCalls EXCEPT ![n] = @ + 1]
            /\ CASE out = "fail" ->
                      LET res == [success |-> FALSE, error |-> LLMErrorMsg, note_id |-> 0]
                      IN /\ notes' = SetStatus(n, "error")
                         /\ calls' = [calls EXCEPT ![p][Len(calls[p])] =
                                        Returned([@ EXCEPT !.llm = out], res)]
                         /\ BatchNext(p, res)
                         /\ UNCHANGED <<summaries, errMsg>>
                 [] out = "nondict" ->
                      LET res == [success |-> FALSE, error |-> AttributeMsg, note_id |-> n]
                      IN /\ notes' = SetStatus(n, "error")
                         /\ calls' = [calls EXCEPT ![p][Len(calls[p])] =
                                        Returned([@ EXCEPT !.llm = out], res)]
                         /\ BatchNext(p, res)
                         /\ UNCHANGED <<summaries, errMsg>>
                 [] out = "ok" ->
                      IF ~SummaryUniqueOk(n)
                      THEN /\ errMsg' = [errMsg EXCEPT ![p] = IntegrityMsg]
                           /\ calls' = [calls EXCEPT ![p][Len(calls[p])].llm = out]
                           /\ mpc' = [mpc EXCEPT ![p] = "except"]
                           /\ UNCHANGED <<notes, summaries, bstats, bidx, summResult>>
                      ELSE /\ summaries' = Append(summaries, n)
                           /\ calls' = [calls EXCEPT ![p][Len(calls[p])] =
                                          [@ EXCEPT !.llm = out, !.created = TRUE]]
                           /\ mpc' = [mpc EXCEPT ![p] = "finish"]
                           /\ UNCHANGED <<notes, errMsg, bstats, bidx, summResult>>
    /\ UNCHANGED <<mruns, asked, batch, scrapeVars>>
    /\ UNCHANGED auxVars

(* process_technical_note: the except handler. *)
SaveError(p) ==
    /\ mpc[p] = "except"
    /\ LET n == CurNote(p)
           res == [success |-> FALSE, error |-> errMsg[p], note_id |-> n]
       IN /\ notes' = SetStatus(n, "error")
          /\ calls' = [calls EXCEPT ![p][Len(calls[p])] = Returned(@, res)]
          /\ BatchNext(p, res)
    /\ UNCHANGED <<summaries, mruns, asked, batch, errMsg, llmCalls, scrapeVars>>
    /\ UNCHANGED auxVars

(* process_technical_note: status = "processed"; save(); return the success dict. *)
SaveProcessed(p) ==
    /\ mpc[p] = "finish"
    /\ LET n == CurNote(p)
           res == [success |-> TRUE, error |-> <<>>, note_id |-> n]
       IN /\ notes' = SetStatus(n, "processed")
          /\ calls' = [calls EXCEPT ![p][Len(calls[p])] = Returned(@, res)]
          /\ BatchNext(p, res)
    /\ UNCHANGED <<summaries, mruns, asked, batch, errMsg, llmCalls, scrapeVars>>
    /\ UNCHANGED auxVars

SummNext ==
    \/ \E p \in SummProcs : SummJobStart(p)
    \/ \E p \in SummProcs : CheckSummary(p)
    \/ \E p \in SummProcs : MarkProcessing(p)
    \/ \E p \in SummProcs : ProcessWithLLM(p)
    \/ \E p \in SummProcs : SaveError(p)
    \/ \E p \in SummProcs : SaveProcessed(p)

(* ------------------- _make_request (scrapers/base.py) ------------------ *)
RECURSIVE Pow2(_)
Pow2(n) == IF n = 0 THEN 1 ELSE 2 * Pow2(n - 1)

pipelineVars == <<notes, scrapeVars, summVars, pipeJobVars, cmd>>

(* The clock advances by a second.  Statements that follow each other
   without a sleep run within one second: no time passes between the
   time.time() of _rate_limit or the end of a sleep and the session.get. *)
Tick ==
    /\ now < MaxClock
    /\ fpc # "attempt"
    /\ now' = now + 1
    /\ UNCHANGED <<max_retries, delay_between_requests, last_request_time, fpc,
                   attempt, wake, fcall, reqs, fouts, pipelineVars, naps>>
    /\ UNCHANGED schedVars

(* A caller enters _make_request. *)
FetchCall ==
    /\ fpc = "idle"
    /\ fcall < MaxFetches
    /\ fcall' = fcall + 1
    /\ fpc' = "rate"
    /\ UNCHANGED <<max_retries, delay_between_requests, last_request_time, now,
                   attempt, wake, reqs, fouts, pipelineVars, naps>>
    /\ UNCHANGED schedVars

(* After _rate_limit: enter the for loop, which has no iteration and lets the
   function fall off its end when max_retries is 0. *)
EnterLoop ==
    /\ attempt' = 0
    /\ IF max_retries > 0
       THEN /\ fpc' = "attempt"
            /\ UNCHANGED fouts
       ELSE /\ fpc' = "idle"
            /\ fouts' = Append(fouts, "none")

(* _rate_limit: sleep for the rest of the delay since last_request_time. *)
RateLimit ==
    /\ fpc = "rate"
    /\ IF now - last_request_time < delay_between_requests
       THEN /\ wake' = now + (delay_between_requests - (now - last_request_time))
            /\ fpc' = "rl_sleep"
            /\ UNCHANGED <<last_request_time, attempt, fouts>>
       ELSE /\ last_request_time' = now
            /\ EnterLoop
            /\ UNCHANGED wake
    /\ UNCHANGED <<max_retries, delay_between_requests, now, fcall, reqs, pipelineVars, naps>>
    /\ UNCHANGED schedVars

(* _rate_limit: the sleep is over; self.last_request_time = time.time(). *)
RateWake ==
    /\ fpc = "rl_sleep"
    /\ now >= wake
    /\ last_request_time' = now
    /\ EnterLoop
    /\ UNCHANGED <<max_retries, delay_between_requests, now, wake, fcall, reqs, pipelineVars, naps>>
    /\ UNCHANGED schedVars

BackoffConstant(a) == 1

(* time.sleep(2**attempt) *)
Backoff(a) == Pow2(a)

LastAttemptAlways(a) == TRUE

(* attempt == self.max_retries - 1 *)
LastAttempt(a) == a = max_retries - 1

(* One iteration of the loop: session.get and raise_for_status; a response
   with a 2xx status is returned, any RequestException (a non-2xx status
   included) is re-raised on the last attempt and slept on otherwise. *)
Attempt ==
    /\ fpc = "attempt"
    /\ \E out \in {"ok", "http_error", "conn_error"} :
         /\ reqs' = Append(reqs, [call |-> fcall, attempt |-> attempt, t |-> now, out |-> out])
         /\ IF out = "ok"
            THEN /\ fpc' = "idle"
                 /\ fouts' = Append(fouts, "response")
                 /\ UNCHANGED <<wake, naps>>
            ELSE IF LastAttempt(attempt)
                 THEN /\ fpc' = "idle"
                      /\ fouts' = Append(fouts, "raised")
                      /\ UNCHANGED <<wake, naps>>
                 ELSE /\ fpc' = "backoff"
                      /\ wake' = now + Backoff(attempt)
                      /\ naps' = Append(naps, [call |-> fcall, attempt |-> attempt,
                                               secs |-> Backoff(attempt)])
                      /\ UNCHANGED fouts
    /\ UNCHANGED <<max_retries, delay_between_requests, last_request_time, now,
                   attempt, fcall, pipelineVars>>
    /\ UNCHANGED schedVars

(* time.sleep(2**attempt) is over: next iteration. *)
BackoffWake ==
    /\ fpc = "backoff"
    /\ now >= wake
    /\ attempt' = attempt + 1
    /\ fpc' = "attempt"
    /\ UNCHANGED <<max_retries, delay_between_requests, last_request_time, now,
                   wake, fcall, reqs, fouts, pipelineVars, naps>>
    /\ UNCHANGED schedVars

FetchNext ==
    \/ Tick
    \/ FetchCall
    \/ RateLimit
    \/ RateWake
    \/ Attempt
    \/ BackoffWake

(* A scraper instance built with any retry count and delay, idle pipeline. *)
InitFetch ==
    /\ InitScrape
    /\ InitSummIdle
    /\ listing = <<>>
    /\ dataSource = "absent"
    /\ notes = <<>>
    /\ content = [u \in URLs |-> 1]
    /\ max_retries \in 0..MaxRetries
    /\ delay_between_requests \in 1..MaxDelay
    /\ InitFetchIdle
    /\ InitSchedIdle
    /\ InitPipeIdle

SpecFetch == InitFetch /\ [][FetchNext]_vars

(* ---------------- JobSchedulerService (jobs/schedulers.py) --------------- *)
(* The scheduler is APScheduler's BackgroundScheduler with a DjangoJobStore:
   while it is stopped add_job appends to _pending_jobs, get_jobs lists
   _pending_jobs and remove_job deletes the first pending entry of the id;
   start() moves the pending jobs into the store one by one, each with its
   replace_existing flag; while it runs the three work on the store.  The
   executor starts an execution of a due job unless max_instances executions
   of that id are running. *)

(* get_scheduler: create the scheduler on first use. *)
get_scheduler == IF scheduler = "none" THEN "stopped" ELSE scheduler

(* is_running *)
is_running == scheduler = "running"

RECURSIVE StoredJobs(_)
StoredJobs(ids) ==
    IF ids = <<>> THEN <<>>
    ELSE IF store[Head(ids)] = NoJob THEN StoredJobs(Tail(ids))
         ELSE <<store[Head(ids)]>> \o StoredJobs(Tail(ids))

(* list_jobs: scheduler.get_jobs() *)
list_jobs == IF scheduler = "running" THEN StoredJobs(JobIdSeq) ELSE pending_jobs

(* _real_add_job with replace_existing=True for each job of js in turn. *)
RECURSIVE RealAddAll(_, _)
RealAddAll(js, st) ==
    IF js = <<>> THEN st
    ELSE RealAddAll(Tail(js), [st EXCEPT ![Head(js).id] = Head(js)])

(* Index of the first pending job with this id, 0 when there is none. *)
FirstPending(id) ==
    IF \E i \in DOMAIN pending_jobs : pending_jobs[i].id = id
    THEN CHOOSE i \in DOMAIN pending_jobs :
            /\ pending_jobs[i].id = id
            /\ \A k \in 1..(i - 1) : pending_jobs[k].id # id
    ELSE 0

Op(name, id) ==
    [NoOp EXCEPT !.op = name, !.id = id, !.wasCreated = scheduler # "none",
                 !.wasRunning = is_running, !.before = list_jobs]

NeedsStartAlways == TRUE

(* if not scheduler.running *)
NeedsStart == ~is_running

(* The job ids list_jobs shows. *)
Listed == {list_jobs[i].id : i \in DOMAIN list_jobs}

(* JobSchedulerService.start *)
StartCall ==
    /\ nops < MaxSchedOps
    /\ nops' = nops + 1
    /\ IF NeedsStart
       THEN /\ scheduler' = "running"
            /\ store' = RealAddAll(pending_jobs, store)
            /\ pending_jobs' = <<>>
            /\ lastEffective' = "start"
            /\ lastOp' = [Op("start", "") EXCEPT !.effective = TRUE]
       ELSE /\ scheduler' = get_scheduler
            /\ lastOp' = Op("start", "")
            /\ UNCHANGED <<store, pending_jobs, lastEffective>>
    /\ UNCHANGED <<instances, maxReg, mgrResult, pauseAsked, saved>>

Start == StartCall /\ UNCHANGED <<fetchVars, pipelineVars>>

(* JobSchedulerService.shutdown; scheduler.shutdown() waits for the running
   executions to end. *)
ShutdownCall ==
    /\ nops < MaxSchedOps
    /\ nops' = nops + 1
    /\ IF scheduler # "none" /\ is_running
       THEN /\ scheduler' = "stopped"
            /\ instances' = [j \in JobIds |-> 0]
            /\ lastEffective' = "shutdown"
            /\ lastOp' = [Op("shutdown", "") EXCEPT !.effective = TRUE]
            /\ saved' = [valid |-> TRUE, restarted |-> FALSE,
                         jobs |-> {store[j] : j \in JobIds} \ {NoJob}]
       ELSE /\ lastOp' = Op("shutdown", "")
            /\ UNCHANGED <<scheduler, instances, lastEffective, saved>>
    /\ UNCHANGED <<pending_jobs, store, maxReg, mgrResult, pauseAsked>>

Shutdown == ShutdownCall /\ UNCHANGED <<fetchVars, pipelineVars>>

JobMaxInstancesDefaultOnly(mi) == DefaultMaxInstances

(* **kwargs are handed to scheduler.add_job; mi = 0 stands for a call without
   max_instances, which takes the job default. *)
JobMaxInstances(mi) == IF mi = 0 THEN DefaultMaxInstances ELSE mi

(* scheduler.add_job(..., replace_existing=True): the pending list and the
   store it leaves, from those it finds. *)
Added(pend, st, job) ==
    IF get_scheduler = "stopped"
    THEN [pending |-> Append(pend, job), store |-> st]
    ELSE [pending |-> pend, store |-> [st EXCEPT ![job.id] = job]]

(* JobSchedulerService.add_job(func, trigger, job_id, **kwargs) *)
AddJob(id, mi) ==
    /\ nops < MaxSchedOps
    /\ nops' = nops + 1
    /\ LET job == [id |-> id, ver |-> nops + 1,
                   max_instances |-> JobMaxInstances(mi)]
           after == Added(pending_jobs, store, job)
       IN /\ scheduler' = get_scheduler
          /\ pending_jobs' = after.pending
          /\ store' = after.store
          /\ lastOp' = [Op("add", id) EXCEPT !.ver = job.ver]
          /\ maxReg' = [maxReg EXCEPT ![id] =
                            LET asked_mi == IF mi = 0 THEN DefaultMaxInstances ELSE mi
                            IN IF asked_mi > @ THEN asked_mi ELSE @]
    /\ saved' = [saved EXCEPT !.valid = FALSE]
    /\ UNCHANGED <<instances, lastEffective, mgrResult, pauseAsked, fetchVars,
                   pipelineVars>>

(* JobSchedulerService.remove_job: a JobLookupError is logged, not raised. *)
RemoveJob(id) ==
    /\ nops < MaxSchedOps
    /\ nops' = nops + 1
    /\ scheduler' = get_scheduler
    /\ IF get_scheduler = "stopped"
       THEN /\ IF FirstPending(id) # 0
               THEN /\ pending_jobs' = [k \in 1..(Len(pending_jobs) - 1) |->
                                          IF k < FirstPending(id) THEN pending_jobs[k]
                                          ELSE pending_jobs[k + 1]]
                    /\ lastOp' = Op("remove", id)
               ELSE /\ lastOp' = [Op("remove", id) EXCEPT !.lookupError = TRUE]
                    /\ UNCHANGED pending_jobs
            /\ UNCHANGED store
       ELSE /\ IF store[id] # NoJob
               THEN /\ store' = [store EXCEPT ![id] = NoJob]
                    /\ lastOp' = Op("remove", id)
               ELSE /\ lastOp' = [Op("remove", id) EXCEPT !.lookupError = TRUE]
                    /\ UNCHANGED store
            /\ UNCHANGED pending_jobs
    /\ saved' = [saved EXCEPT !.valid = FALSE]
    /\ UNCHANGED <<instances, lastEffective, maxReg, mgrResult, pauseAsked, fetchVars,
                   pipelineVars>>

(* JobSchedulerService.list_jobs *)
ListJobs ==
    /\ nops < MaxSchedOps
    /\ nops' = nops + 1
    /\ scheduler' = get_scheduler
    /\ lastOp' = Op("list", "")
    /\ UNCHANGED <<pending_jobs, store, instances, lastEffective, maxReg, mgrResult,
                   pauseAsked, saved, fetchVars, pipelineVars>>

(* The executor refuses a job of which max_instances executions are running. *)
MayRun(id) == instances[id] < store[id].max_instances

(* A stored job is due on the running scheduler: the executor starts an
   execution unless max_instances of them are running. *)
Fire(id) ==
    /\ is_running
    /\ store[id] # NoJob
    /\ MayRun(id)
    /\ instances' = [instances EXCEPT ![id] = @ + 1]
    /\ UNCHANGED <<scheduler, pending_jobs, store, nops, lastOp, lastEffective,
                   maxReg, mgrResult, pauseAsked, saved, fetchVars, pipelineVars>>

(* An execution ends. *)
Finish(id) ==
    /\ instances[id] > 0
    /\ instances' = [instances EXCEPT ![id] = @ - 1]
    /\ UNCHANGED <<scheduler, pending_jobs, store, nops, lastOp, lastEffective,
                   maxReg, mgrResult, pauseAsked, saved, fetchVars, pipelineVars>>

(* ------------- NFEJobManager (services/nfe_job_manager.py) -------------- *)
SetupStatusConfigured(failed) == "configured"

(* results[...] = "configured" after add_job, "error" in its except handler *)
SetupStatus(failed) == IF failed THEN "error" ELSE "configured"

(* NFEJobManager.setup_default_jobs: the two add_job calls, each in its own
   try block; fails are the registrations whose add_job raises. *)
SetupCall ==
    /\ nops + 2 <= MaxSchedOps
    /\ nops' = nops + 2
    /\ \E fails \in SUBSET JobIds :
         LET j1 == [id |-> SCRAPING_JOB_ID, ver |-> nops + 1,
                    max_instances |-> JobMaxInstances(1)]
             j2 == [id |-> PROCESSING_JOB_ID, ver |-> nops + 2,
                    max_instances |-> JobMaxInstances(1)]
             none == [pending |-> pending_jobs, store |-> store]
             a1 == IF SCRAPING_JOB_ID \in fails THEN none
                   ELSE Added(pending_jobs, store, j1)
             a2 == IF PROCESSING_JOB_ID \in fails THEN a1
                   ELSE Added(a1.pending, a1.store, j2)
             e1 == IF SCRAPING_JOB_ID \in fails
                   THEN <<ScrapingErrPrefix \o AddFailMsg>> ELSE <<>>
             e2 == IF PROCESSING_JOB_ID \in fails
                   THEN <<ProcessingErrPrefix \o AddFailMsg>> ELSE <<>>
         IN /\ scheduler' = get_scheduler
            /\ pending_jobs' = a2.pending
            /\ store' = a2.store
            /\ maxReg' = [j \in JobIds |->
                            IF j \notin fails /\ maxReg[j] < 1 THEN 1 ELSE maxReg[j]]
            /\ mgrResult' = [NoMgr EXCEPT
                               !.op = "setup",
                               !.scraping_job = SetupStatus(SCRAPING_JOB_ID \in fails),
                               !.processing_job = SetupStatus(PROCESSING_JOB_ID \in fails),
                               !.errors = e1 \o e2,
                               !.failed = fails]
    /\ lastOp' = Op("setup", "")
    /\ saved' = [saved EXCEPT !.valid = FALSE]
    /\ UNCHANGED <<instances, lastEffective, pauseAsked>>

SetupDefaultJobs == SetupCall /\ UNCHANGED <<fetchVars, pipelineVars>>

(* NFEJobManager.get_job_status: list_jobs returns apscheduler Job objects and
   the first job.get("id") raises AttributeError, which the except handler
   turns into an error dict; with no job listed both ids are reported. *)
GetJobStatus ==
    /\ nops < MaxSchedOps
    /\ nops' = nops + 1
    /\ scheduler' = get_scheduler
    /\ lastOp' = Op("list", "")
    /\ mgrResult' =
          IF list_jobs = <<>>
          THEN [NoMgr EXCEPT !.op = "status", !.success = TRUE,
                             !.jobs = [j \in JobIds |-> "not_scheduled"],
                             !.scheduler_running = is_running]
          ELSE [NoMgr EXCEPT !.op = "status", !.error = JobGetAttrMsg,
                             !.listed = Listed]
    /\ UNCHANGED <<pending_jobs, store, instances, lastEffective, maxReg, pauseAsked,
                   saved, fetchVars, pipelineVars>>

(* NFEJobManager.pause_job: JobSchedulerService has no pause_job, the
   attribute lookup raises and the except handler returns the failure. *)
PauseJob(id) ==
    /\ nops < MaxSchedOps
    /\ nops' = nops + 1
    /\ mgrResult' = [NoMgr EXCEPT !.op = "pause", !.id = id, !.error = PauseAttrMsg,
                                  !.listed = Listed]
    /\ pauseAsked' = pauseAsked \cup {id}
    /\ UNCHANGED <<scheduler, pending_jobs, store, instances, lastOp, lastEffective,
                   maxReg, saved, fetchVars, pipelineVars>>

(* NFEJobManager.resume_job: as pause_job. *)
ResumeJob(id) ==
    /\ nops < MaxSchedOps
    /\ nops' = nops + 1
    /\ mgrResult' = [NoMgr EXCEPT !.op = "resume", !.id = id, !.error = ResumeAttrMsg,
                                  !.listed = Listed]
    /\ pauseAsked' = pauseAsked \ {id}
    /\ UNCHANGED <<scheduler, pending_jobs, store, instances, lastOp, lastEffective,
                   maxReg, saved, fetchVars, pipelineVars>>

StoreAfterExitMemory(st) == [j \in JobIds |-> NoJob]

(* jobstores = {"default": DjangoJobStore()}: the jobs are rows of the
   database and outlive the process. *)
StoreAfterExit(st) == st

(* The process ends and a fresh one imports the class: _scheduler is None
   again, the pending list and the running executions are gone. *)
(* scheduler.remove_job(id) on the given pending list and store: the first
   pending entry of that id while the scheduler is stopped, the stored job
   while it runs; raised tells whether the scheduler raised JobLookupError. *)
RemovedFrom(pj, st, id) ==
    LET first == IF \E i \in DOMAIN pj : pj[i].id = id
                 THEN CHOOSE i \in DOMAIN pj :
                         pj[i].id = id /\ \A k \in 1..(i - 1) : pj[k].id # id
                 ELSE 0
    IN IF get_scheduler = "stopped"
       THEN IF first # 0
            THEN [pending |-> [k \in 1..(Len(pj) - 1) |->
                                 IF k < first THEN pj[k] ELSE pj[k + 1]],
                  store |-> st, raised |-> FALSE]
            ELSE [pending |-> pj, store |-> st, raised |-> TRUE]
       ELSE IF st[id] # NoJob
            THEN [pending |-> pj, store |-> [st EXCEPT ![id] = NoJob], raised |-> FALSE]
            ELSE [pending |-> pj, store |-> st, raised |-> TRUE]

(* JobSchedulerService.remove_job logs every exception and returns. *)
RemoveJobRaises(lookupError) == FALSE

(* NFEJobManager.remove_all_jobs: both default ids in turn; an id goes to
   'removed' when the service call returned and to 'errors' when it raised.
   failed records the ids for which the scheduler itself raised. *)
RemoveAllJobs ==
    /\ nops + 2 <= MaxSchedOps
    /\ nops' = nops + 2
    /\ LET r1 == RemovedFrom(pending_jobs, store, SCRAPING_JOB_ID)
           r2 == RemovedFrom(r1.pending, r1.store, PROCESSING_JOB_ID)
           x1 == RemoveJobRaises(r1.raised)
           x2 == RemoveJobRaises(r2.raised)
       IN /\ scheduler' = get_scheduler
          /\ pending_jobs' = r2.pending
          /\ store' = r2.store
          /\ mgrResult' = [NoMgr EXCEPT
                             !.op = "remove_all",
                             !.removed = (IF x1 THEN <<>> ELSE <<SCRAPING_JOB_ID>>)
                                         \o (IF x2 THEN <<>> ELSE <<PROCESSING_JOB_ID>>),
                             !.errors =
                                (IF x1 THEN <<<<"Erro", "ao", "remover", "job",
                                                SCRAPING_JOB_ID>>>> ELSE <<>>)
                                \o (IF x2 THEN <<<<"Erro", "ao", "remover", "job",
                                                   PROCESSING_JOB_ID>>>> ELSE <<>>),
                             !.success = ~x1 /\ ~x2,
                             !.failed = (IF r1.raised THEN {SCRAPING_JOB_ID} ELSE {})
                                        \cup (IF r2.raised THEN {PROCESSING_JOB_ID}
                                              ELSE {})]
    /\ lastOp' = Op("remove_all", "")
    /\ saved' = [saved EXCEPT !.valid = FALSE]
    /\ UNCHANGED <<instances, lastEffective, maxReg, pauseAsked, fetchVars, pipelineVars>>

ProcessExit ==
    /\ nops < MaxSchedOps
    /\ nops' = nops + 1
    /\ scheduler' = "none"
    /\ pending_jobs' = <<>>
    /\ store' = StoreAfterExit(store)
    /\ instances' = [j \in JobIds |-> 0]
    /\ lastOp' = NoOp
    /\ lastEffective' = "none"
    /\ mgrResult' = NoMgr
    /\ pauseAsked' = {}
    /\ saved' = [saved EXCEPT !.restarted = TRUE]
    /\ UNCHANGED <<maxReg, fetchVars, pipelineVars>>

SchedNext ==
    \/ Start
    \/ Shutdown
    \/ \E id \in JobIds, mi \in {0, 1} : AddJob(id, mi)
    \/ \E id \in JobIds : RemoveJob(id)
    \/ ListJobs
    \/ \E id \in JobIds : Fire(id)
    \/ \E id \in JobIds : Finish(id)
    \/ SetupDefaultJobs
    \/ GetJobStatus
    \/ \E id \in JobIds : PauseJob(id)
    \/ \E id \in JobIds : ResumeJob(id)
    \/ RemoveAllJobs
    \/ ProcessExit

InitSched ==
    /\ InitScrape
    /\ InitSummIdle
    /\ listing = <<>>
    /\ dataSource = "absent"
    /\ notes = <<>>
    /\ content = [u \in URLs |-> 1]
    /\ InitFetchDefault
    /\ InitSchedIdle
    /\ InitPipeIdle

SpecSched == InitSched /\ [][SchedNext]_vars

(* ------------------------------------------------------------------ *)
(* python manage.py start_jobs: the command process.  cmd.pc is the
   position of handle(): off, handlers (signal handlers installed), started,
   loop, returned (handle returned) or exited (sys.exit in the handler).   *)

CmdAlive == cmd.pc \in {"handlers", "started", "loop"}

cmdFrame == <<fetchVars, notes, scrapeVars, summVars, pipeJobVars>>

(* handle() up to signal.signal(SIGTERM, signal_handler), with the options
   the command was started with. *)
HandleBegin ==
    /\ cmd.pc = "off"
    /\ \E m \in {"daemon", "interactive", "setup_only"} :
          cmd' = [NoCmd EXCEPT !.pc = "handlers", !.mode = m]
    /\ UNCHANGED <<schedVars, cmdFrame>>

(* JobSchedulerService.start() inside the try block; when it raises (the job
   store's tables cannot be read) the scheduler was created and not started,
   and the except branch reports the error, calls shutdown and returns. *)
HandleStart ==
    /\ cmd.pc = "handlers"
    /\ \/ /\ StartCall
          /\ cmd' = [cmd EXCEPT !.pc = "started"]
       \/ /\ ~is_running
          /\ nops < MaxSchedOps
          /\ nops' = nops + 1
          /\ scheduler' = get_scheduler
          /\ lastOp' = [Op("start", "") EXCEPT !.raised = TRUE]
          /\ cmd' = [cmd EXCEPT !.pc = "returned", !.reported = TRUE,
                                !.runningAtExit = FALSE]
          /\ UNCHANGED <<pending_jobs, store, instances, lastEffective, maxReg,
                         mgrResult, pauseAsked, saved>>
    /\ UNCHANGED cmdFrame

(* NFEJobManager().setup_default_jobs(), the printed job list, and the
   --setup-only return. *)
HandleSetup ==
    /\ cmd.pc = "started"
    /\ SetupCall
    /\ cmd' = IF cmd.mode = "setup_only"
              THEN [cmd EXCEPT !.pc = "returned", !.runningAtExit = is_running]
              ELSE [cmd EXCEPT !.pc = "loop"]
    /\ UNCHANGED cmdFrame

(* One round of the daemon loop: time.sleep(3600), then the is_running test;
   a stopped scheduler is reported and ends the loop and handle(). *)
DaemonPoll ==
    /\ cmd.pc = "loop"
    /\ cmd.mode = "daemon"
    /\ cmd' = IF ~is_running
              THEN [cmd EXCEPT !.pc = "returned", !.found = TRUE, !.reported = TRUE,
                               !.runningAtExit = FALSE]
              ELSE cmd
    /\ UNCHANGED <<schedVars, cmdFrame>>

(* One round of the interactive loop: time.sleep(60) and the status line. *)
InteractivePoll ==
    /\ cmd.pc = "loop"
    /\ cmd.mode = "interactive"
    /\ cmd' = [cmd EXCEPT !.shown = IF is_running THEN "green" ELSE "red"]
    /\ UNCHANGED <<schedVars, cmdFrame>>

signal_handler_exit_only(sig) ==
    /\ CmdAlive
    /\ cmd' = [cmd EXCEPT !.pc = "exited", !.signal = sig,
                          !.runningAtExit = is_running]
    /\ UNCHANGED <<schedVars, cmdFrame>>

(* signal_handler: JobSchedulerService.shutdown() and then sys.exit(0); the
   SystemExit passes both except clauses of handle(). *)
signal_handler(sig) ==
    /\ CmdAlive
    /\ ShutdownCall
    /\ cmd' = [cmd EXCEPT !.pc = "exited", !.signal = sig,
                          !.runningAtExit = (scheduler' = "running")]
    /\ UNCHANGED cmdFrame

(* What else runs in the process while the command is alive: the scheduler's
   executor threads, and other code calling JobSchedulerService.shutdown(). *)
InProcess ==
    /\ CmdAlive
    /\ \/ \E id \in JobIds : Fire(id)
       \/ \E id \in JobIds : Finish(id)
       \/ Shutdown

CmdNext ==
    \/ HandleBegin
    \/ HandleStart
    \/ HandleSetup
    \/ DaemonPoll
    \/ InteractivePoll
    \/ \E sig \in {"SIGINT", "SIGTERM"} : signal_handler(sig)
    \/ InProcess

SpecCmd == InitSched /\ [][CmdNext]_vars

Next == ScrapeNext \/ SummNext

(* Scrape runs alone, summarize runs alone, and the whole system. *)
SpecScrape == InitScrapeDb /\ [][ScrapeNext]_vars
SpecSumm == InitSummDb /\ [][SummNext]_vars

(* The whole system, both jobs and both triggers, from a first start: an
   empty database without the data source row, and the listing published with
   its documents, each URL once. *)
Init ==
    /\ InitScrapeDb
    /\ dataSource = "absent"
    /\ notes = <<>>
    /\ Len(listing) = MaxListing
    /\ \A i \in DOMAIN listing : listing[i].url = i
    /\ \A u \in URLs : content[u] = 1 + (u % NContents)

Spec == Init /\ [][Next]_vars

(* ----------------- nfe_fazenda_full_pipeline_job (tasks.py) ------------- *)
(* The full pipeline is one more caller of the two job functions; its calls
   take the slot of the manual trigger. *)
PipeProc == "manual"

(* max_items of the pipeline's call of process_pending_technical_notes_job *)
PipelineMaxItems == 20

(* kwargs={"max_items": 15} of the registered processing job *)
ScheduledMaxItems == 15

ScrapingFailedMsg == <<"Scraping", "falhou">>

PipeRunsProcessingAlways(res) == TRUE

(* if scraping_result["success"]: *)
PipeRunsProcessing(res) == res.success

(* The state start_jobs leaves: scheduler.start(), then setup_default_jobs()
   with both registrations accepted. *)
InitSchedStarted ==
    /\ scheduler = "running"
    /\ pending_jobs = <<>>
    /\ store = [j \in JobIds |->
                  [id |-> j, ver |-> IF j = SCRAPING_JOB_ID THEN 2 ELSE 3,
                   max_instances |-> JobMaxInstances(1)]]
    /\ instances = [j \in JobIds |-> 0]
    /\ nops = 3
    /\ lastOp = [NoOp EXCEPT !.op = "setup", !.wasCreated = TRUE, !.wasRunning = TRUE]
    /\ lastEffective = "start"
    /\ maxReg = [j \in JobIds |-> 1]
    /\ mgrResult = [NoMgr EXCEPT !.op = "setup",
                                 !.scraping_job = SetupStatus(FALSE),
                                 !.processing_job = SetupStatus(FALSE)]
    /\ pauseAsked = {}
    /\ saved = NoSaved

(* nfe_fazenda_full_pipeline_job is called: log, then scrape_nfe_fazenda_job(). *)
PipeStart ==
    /\ ppc = "idle"
    /\ spc[PipeProc] = "idle"
    /\ runs[PipeProc] = 0
    /\ mruns[PipeProc] = 0
    /\ ppc' = "scrape"
    /\ pipeResult' = NoPipe
    /\ UNCHANGED <<notes, scrapeVars, summVars, fetchVars, schedVars, cmd>>

(* scraping_result = scrape_nfe_fazenda_job(): the steps of the scrape job,
   run inside the pipeline. *)
PipeScrape ==
    /\ ppc = "scrape"
    /\ ~scrapeResult[PipeProc].returned
    /\ \/ ScrapeJobStart(PipeProc)
       \/ CreateSource(PipeProc)
       \/ FetchListing(PipeProc)
       \/ UrlPrecheck(PipeProc)
       \/ DownloadItem(PipeProc)
       \/ CreateNote(PipeProc)

(* The branch on scraping_result: on success go on to the settling sleep, on
   failure write the stand-in processing entry and return. *)
PipeSuccessFollowsStages(scraping_ok, processing_ok) == scraping_ok /\ processing_ok

(* return {"success": True, "pipeline_stats": ...}: reached whenever no
   exception left the try block, whatever the two stage results say. *)
PipeSuccess(scraping_ok, processing_ok) == TRUE

PipeAfterScrape ==
    /\ ppc = "scrape"
    /\ scrapeResult[PipeProc].returned
    /\ LET res == scrapeResult[PipeProc]
           entry == [set |-> TRUE, success |-> res.success, error |-> res.error]
       IN IF PipeRunsProcessing(res)
          THEN /\ ppc' = "settle"
               /\ pipeResult' = [pipeResult EXCEPT !.scraping = entry]
          ELSE /\ ppc' = "done"
               /\ pipeResult' = [returned |-> TRUE,
                                 success |-> PipeSuccess(res.success, FALSE),
                                 error |-> "",
                                 scraping |-> entry,
                                 processing |-> [set |-> TRUE, success |-> FALSE,
                                                 error |-> ScrapingFailedMsg]]
    /\ UNCHANGED <<notes, scrapeVars, summVars, fetchVars, schedVars, cmd>>

(* time.sleep(2) before the processing call *)
PipeSettle ==
    /\ ppc = "settle"
    /\ ppc' = "process"
    /\ UNCHANGED <<pipeResult, notes, scrapeVars, summVars, fetchVars, schedVars, cmd>>

(* processing_result = process_pending_technical_notes_job(max_items=20): the
   steps of the processing job, run inside the pipeline. *)
PipeProcess ==
    /\ ppc = "process"
    /\ ~summResult[PipeProc].returned
    /\ \/ SummJobStartWith(PipeProc, PipelineMaxItems)
       \/ CheckSummary(PipeProc)
       \/ MarkProcessing(PipeProc)
       \/ ProcessWithLLM(PipeProc)
       \/ SaveError(PipeProc)
       \/ SaveProcessed(PipeProc)

(* The final return: both results side by side under success = True. *)
PipeReturn ==
    /\ ppc = "process"
    /\ summResult[PipeProc].returned
    /\ LET res == summResult[PipeProc]
       IN pipeResult' = [pipeResult EXCEPT
                           !.returned = TRUE,
                           !.success = PipeSuccess(pipeResult.scraping.success,
                                                   res.success),
                           !.processing = [set |-> TRUE, success |-> res.success,
                                           error |-> res.error]]
    /\ ppc' = "done"
    /\ UNCHANGED <<notes, scrapeVars, summVars, fetchVars, schedVars, cmd>>

(* The scheduler fires the registered scrape job: scrape_nfe_fazenda_job runs
   on an executor thread, beside whatever else is running. *)
ScheduledScrape ==
    /\ is_running
    /\ store[SCRAPING_JOB_ID] # NoJob
    /\ \/ ScrapeJobStart("scheduled")
       \/ CreateSource("scheduled")
       \/ FetchListing("scheduled")
       \/ UrlPrecheck("scheduled")
       \/ DownloadItem("scheduled")
       \/ CreateNote("scheduled")

(* The scheduler fires the registered processing job with its stored kwargs. *)
ScheduledProcess ==
    /\ is_running
    /\ store[PROCESSING_JOB_ID] # NoJob
    /\ \/ SummJobStartWith("scheduled", ScheduledMaxItems)
       \/ CheckSummary("scheduled")
       \/ MarkProcessing("scheduled")
       \/ ProcessWithLLM("scheduled")
       \/ SaveError("scheduled")
       \/ SaveProcessed("scheduled")

PipeNext ==
    \/ PipeStart
    \/ PipeScrape
    \/ PipeAfterScrape
    \/ PipeSettle
    \/ PipeProcess
    \/ PipeReturn
    \/ ScheduledScrape
    \/ ScheduledProcess

(* The pipeline job called once in a process where start_jobs has run: the
   data source row absent, active or inactive, the database empty or holding a
   pending document, and the listing published with each URL once. *)
InitPipe ==
    /\ InitScrape
    /\ Len(listing) = MaxListing
    /\ \A i \in DOMAIN listing : listing[i].url = i
    /\ \A u \in URLs : content[u] = 1 + (u % NContents)
    /\ InitSummIdle
    /\ InitFetchDefault
    /\ InitSchedStarted
    /\ InitPipeIdle

SpecPipe == InitPipe /\ [][PipeNext]_vars

(* ------------- the processing job fired again and again ----------------- *)
(* The cron trigger fires the registered processing job for as long as the
   process lives; max_instances = 1 keeps one execution at a time.  The run
   counter stops at MaxSummRuns. *)
SummJobAgain(p) ==
    /\ mruns' = [mruns EXCEPT ![p] = IF @ < MaxSummRuns THEN @ + 1 ELSE @]
    /\ \E limit \in 1..MaxItems : BeginSummRun(p, limit)

LiveNext ==
    \/ ScrapeJobStart("scheduled")
    \/ CreateSource("scheduled")
    \/ FetchListing("scheduled")
    \/ UrlPrecheck("scheduled")
    \/ DownloadItem("scheduled")
    \/ CreateNote("scheduled")
    \/ SummJobAgain("scheduled")
    \/ CheckSummary("scheduled")
    \/ MarkProcessing("scheduled")
    \/ ProcessWithLLM("scheduled")
    \/ SaveError("scheduled")
    \/ SaveProcessed("scheduled")

(* In a process where start_jobs has run, one scheduled scrape run bringing
   documents in: the scheduler keeps firing the processing job and a started
   execution keeps running. *)
SpecLive == InitPipe /\ [][LiveNext]_vars /\ WF_vars(LiveNext)

(* ------------------- listing extraction on its own ---------------------- *)
(* The rows of a listing page as the link loop reads them: the same href may
   stand in several rows, each with its own context for the date. *)
Links == [url : URLs, hasDate : BOOLEAN]

ExtractNext ==
    \/ ScrapeJobStart("manual")
    \/ FetchListing("manual")
    \/ UrlPrecheck("manual")
    \/ DownloadItem("manual")
    \/ CreateNote("manual")

(* One manual scrape run of an active source over an empty database, the
   listing page being any sequence of up to MaxRows rows. *)
InitExtract ==
    /\ listing \in SeqsUpTo(Links, MaxRows)
    /\ content = [u \in URLs |-> 1 + (u % NContents)]
    /\ dataSource = "active"
    /\ notes = <<>>
    /\ InitScrapeIdle
    /\ InitSummIdle
    /\ InitAux

SpecExtract == InitExtract /\ [][ExtractNext]_vars

(* ============================== claims ================================= *)

(* C1: no two persisted documents have the same content hash, whatever scrape
   runs took place and however a scheduled and a manual run overlapped. *)
HashesUnique ==
    \A i, j \in DOMAIN notes : i # j => notes[i].hash # notes[j].hash

(* Two runs overlapped on one document: one insert went in, the other was
   refused by the unique constraint. *)
HashesUniqueWitness ==
    /\ Len(notes) >= 2
    /\ \E p \in ScrapeProcs : \E r \in raised[p] : r.why = "unique"

(* C2 as stated: a run that follows a completed run, with nothing changed
   upstream and no other run in between or overlapping, finds no new item and
   skips every item as a duplicate. *)
SecondRunAllDuplicates ==
    \A p \in ScrapeProcs :
        secondRun[p].applies =>
            /\ secondRun[p].second.new_items = 0
            /\ secondRun[p].second.duplicates_skipped = secondRun[p].second.total_found

(* C2 amended: the same, for two runs in which no item download failed. *)
SecondRunAllDuplicatesNoDownloadFailure ==
    \A p \in ScrapeProcs :
        (secondRun[p].applies /\ ~secondRun[p].dlFailed) =>
            /\ secondRun[p].second.new_items = 0
            /\ secondRun[p].second.duplicates_skipped = secondRun[p].second.total_found

(* A first run persisted notes, no download failed, and the next run met the
   same listing. *)
SecondRunWitness ==
    \E p \in ScrapeProcs :
        /\ secondRun[p].applies
        /\ ~secondRun[p].dlFailed
        /\ secondRun[p].first.new_items + secondRun[p].first.errors >= 1
        /\ secondRun[p].second.total_found >= 2

(* C3: an item whose handling raises adds exactly one to errors and does not
   end the run: the loop goes on behind it and the run returns its stats only
   after the last candidate. *)
FailureIsolation ==
    \A p \in ScrapeProcs :
        /\ stats[p].errors = Cardinality({r.i : r \in raised[p]})
        /\ raised[p] # {} =>
              \/ Active(p) /\ \A r \in raised[p] : r.i < idx[p]
              \/ /\ scrapeResult[p].returned
                 /\ scrapeResult[p].success
                 /\ idx[p] = Len(items[p]) + 1
                 /\ scrapeResult[p].stats.errors = Cardinality({r.i : r \in raised[p]})

(* The first of several candidates raised and the run still returned. *)
FailureIsolationWitness ==
    \E p \in ScrapeProcs :
        /\ scrapeResult[p].returned /\ scrapeResult[p].success
        /\ Len(items[p]) >= 2
        /\ \E r \in raised[p] : r.i = 1

(* C4: when the listing fetch fails the run handles no item, persists no
   document, and the job returns success = false with an error string. *)
ListingFailureReported ==
    \A p \in ScrapeProcs :
        fetched[p] = "failed" =>
            /\ ~Active(p)
            /\ scrapeResult[p].returned
            /\ ~scrapeResult[p].success
            /\ scrapeResult[p].error # ""
            /\ idx[p] = 0 /\ items[p] = <<>>
            /\ prechecks[p] = {} /\ downloaded[p] = {} /\ persistedBy[p] = {}

(* The fetch failed while the listing had candidates to offer. *)
ListingFailureWitness ==
    \E p \in ScrapeProcs :
        fetched[p] = "failed" /\ _extract_items_from_listing(listing) # <<>>

(* C5: a candidate whose URL is persisted for the job's source at its
   pre-check is never downloaded and counts as a skipped duplicate; every
   download follows a pre-check of that item that found the URL unknown. *)
PrecheckBeforeDownload ==
    \A p \in ScrapeProcs :
        /\ \A r \in prechecks[p] : r.persisted => r.known /\ r.i \notin downloaded[p]
        /\ \A i \in downloaded[p] : \E r \in prechecks[p] : r.i = i /\ ~r.known
        /\ stats[p].duplicates_skipped >= Cardinality({r \in prechecks[p] : r.persisted})

(* One run skipped a known URL and downloaded another candidate. *)
PrecheckWitness ==
    \E p \in ScrapeProcs :
        /\ \E r \in prechecks[p] : r.persisted
        /\ downloaded[p] # {}

(* C6: a note created by a scrape run is pending and its stored preview is
   the first min(len, 1000) characters of the extracted preview; a preview of
   3000 characters is stored with exactly 1000. *)
PersistedPendingCapped ==
    \A p \in ScrapeProcs : \A n \in persistedBy[p] :
        LET c == CHOOSE x \in Contents : _generate_content_hash(x) = notes[n].hash
            full == PreviewOf(c)
        IN /\ notes[n].status = "pending"
           /\ notes[n].preview.len = Min(full.len, PreviewCap)
           /\ notes[n].preview.lead = Min(full.lead, PreviewCap)
           /\ full.len = 3000 => notes[n].preview.len = 1000

(* A document whose preview has 3000 characters was persisted. *)
PersistedCappedWitness ==
    \E p \in ScrapeProcs : \E n \in persistedBy[p] :
        /\ notes[n].hash = _generate_content_hash(1)
        /\ PreviewOf(1).len = 3000
        /\ notes[n].preview.len = 1000

(* C7: a call on a note that has a Summary returns success = false with the
   "already processed" message, leaves the status as it was, does not invoke
   the LLM and creates no Summary. *)
AlreadyProcessedNoEffect ==
    \A p \in SummProcs : \A k \in DOMAIN calls[p] :
        LET c == calls[p][k]
        IN c.hadSummary =>
             /\ c.done
             /\ ~c.success
             /\ c.error = AlreadyMsg
             /\ c.post = c.pre
             /\ c.llm = "none"
             /\ ~c.created

(* A run met a note the other run had summarized in the meantime. *)
AlreadyProcessedWitness ==
    \E p \in SummProcs : \E k \in DOMAIN calls[p] :
        calls[p][k].hadSummary /\ calls[p][k].done

(* C8 as stated: a call on a note without Summary whose preview has fewer than
   50 characters returns the "insufficient content" failure, does not invoke
   the LLM and leaves the status as it was before the call. *)
InsufficientContentNoEffect ==
    \A p \in SummProcs : \A k \in DOMAIN calls[p] :
        LET c == calls[p][k]
        IN (c.done /\ ~c.hadSummary /\ notes[c.note].preview.len < MinContentLen) =>
             /\ ~c.success
             /\ c.error = InsufficientMsg
             /\ c.llm = "none"
             /\ c.post = c.pre

(* C9: a call that passes both guards ends either with the LLM result stored
   (one Summary for the note, status processed, success) or with a failure
   (no Summary created by the call, status error, a failure message); an LLM
   failure always ends in the second. *)
OutcomeDichotomy ==
    \A p \in SummProcs : \A k \in DOMAIN calls[p] :
        LET c == calls[p][k]
        IN (c.done /\ ~c.hadSummary /\ ~InsufficientContent(notes[c.note].preview)) =>
             /\ c.llm # "none"
             /\ c.llm # "ok" => ~c.success
             /\ \/ /\ c.success /\ c.llm = "ok" /\ c.created
                   /\ c.post = "processed"
                   /\ Cardinality({i \in DOMAIN summaries : summaries[i] = c.note}) = 1
                \/ /\ ~c.success /\ ~c.created
                   /\ c.post = "error"
                   /\ c.error # <<>>

(* Both outcomes occurred: one call stored a Summary, one met an LLM failure. *)
OutcomeDichotomyWitness ==
    /\ \E p \in SummProcs : \E k \in DOMAIN calls[p] :
          calls[p][k].done /\ calls[p][k].success
    /\ \E p \in SummProcs : \E k \in DOMAIN calls[p] :
          calls[p][k].done /\ calls[p][k].llm = "fail"

(* C10: process_batch counts every note once: results, processed + errors +
   skipped and total agree with the notes handed in; "already processed"
   outcomes are the skipped ones, successes the processed ones, all other
   failures the errors; and the job returns its stats with success. *)
BatchAccounting ==
    \A p \in SummProcs :
        LET st == bstats[p]
            done == {k \in DOMAIN calls[p] : calls[p][k].done}
        IN /\ st.total = Len(batch[p])
           /\ Len(st.results) = Cardinality(done)
           /\ st.processed + st.errors + st.skipped = Len(st.results)
           /\ st.processed = Cardinality({k \in done : calls[p][k].success})
           /\ st.skipped = Cardinality({k \in done : calls[p][k].hadSummary})
           /\ st.errors = Cardinality({k \in done : ~calls[p][k].success /\ ~calls[p][k].hadSummary})
           /\ (mpc[p] = "idle" /\ mruns[p] > 0) =>
                 /\ summResult[p].returned
                 /\ summResult[p].success
                 /\ summResult[p].stats = st
                 /\ Len(st.results) = st.total

(* Three notes of which the second fails: total 3, processed 2, errors 1. *)
BatchAccountingWitness ==
    \E p \in SummProcs :
        /\ summResult[p].returned
        /\ summResult[p].stats.total = 3
        /\ summResult[p].stats.processed = 2
        /\ summResult[p].stats.errors = 1
        /\ Len(summResult[p].stats.results) = 3
        /\ summResult[p].stats.results[1].success
        /\ ~summResult[p].stats.results[2].success
        /\ summResult[p].stats.results[3].success

(* C11 as stated: every entry of process_batch's results list carries the id
   of the note it was produced for, whatever the outcome. *)
ResultsTaggedWithNoteId ==
    \A p \in SummProcs : \A k \in DOMAIN bstats[p].results :
        bstats[p].results[k].note_id = batch[p][k]

(* C12: no note ever has two ProcessedSummary rows, also when the scheduled
   and the manual summarize run handle the same note at once; a call on a note
   that already has a summary creates none. *)
OneSummaryPerNote ==
    /\ \A i, j \in DOMAIN summaries : i # j => summaries[i] # summaries[j]
    /\ \A p \in SummProcs : \A k \in DOMAIN calls[p] :
          LET c == calls[p][k]
          IN /\ c.hadSummary => ~c.created
             /\ c.created => Cardinality({i \in DOMAIN summaries : summaries[i] = c.note}) = 1

(* Two runs got an LLM result for the same note: one row was created, the
   other insert was refused. *)
OneSummaryPerNoteWitness ==
    \E p, q \in SummProcs : \E k \in DOMAIN calls[p], l \in DOMAIN calls[q] :
        /\ p # q
        /\ calls[p][k].note = calls[q][l].note
        /\ calls[p][k].created
        /\ calls[q][l].llm = "ok" /\ calls[q][l].done /\ ~calls[q][l].created
        /\ calls[q][l].error = IntegrityMsg

(* C13 as stated: notes are created pending, every change of a note's status
   is one of pending -> processing, processing -> processed, processing ->
   error, and nothing leaves processed or error. *)
StatusMovesForward ==
    [][/\ \A n \in DOMAIN notes' \ DOMAIN notes : notes'[n].status = "pending"
       /\ \A n \in DOMAIN notes :
             notes'[n].status # notes[n].status =>
                <<notes[n].status, notes'[n].status>> \in
                    {<<"pending", "processing">>, <<"processing", "processed">>,
                     <<"processing", "error">>}]_vars

(* C14 as stated: the notes a summarize run fetches are pending ones, oldest
   first, at most as many as the limit it passed, and the oldest ones. *)
PendingFetchRespectsLimit ==
    [][\A p \in SummProcs :
          mruns'[p] = mruns[p] + 1 =>
             LET b == batch'[p]
                 pending == {n \in DOMAIN notes : notes[n].status = "pending"}
             IN /\ \A k \in DOMAIN b : b[k] \in pending
                /\ \A k \in 1..(Len(b) - 1) : b[k] < b[k + 1]
                /\ Len(b) = Min(asked'[p], Cardinality(pending))
                /\ \A n \in pending : \A k \in DOMAIN b : n = b[k] \/ b[k] < n \/ \E l \in DOMAIN b : n = b[l]]_vars

(* C15: one _make_request call issues at most max_retries requests; it
   returns the response of its first successful request and issues none after
   it; it raises only after max_retries requests that all failed, whether by
   a non-2xx status or by a connection error. *)
RetryPolicy ==
    \A c \in 1..fcall :
        LET mine == {i \in DOMAIN reqs : reqs[i].call = c}
            ended == c \in DOMAIN fouts
        IN /\ Cardinality(mine) <= max_retries
           /\ \A i \in mine : reqs[i].out = "ok" =>
                 /\ \A j \in mine : j <= i
                 /\ ended /\ fouts[c] = "response"
           /\ (ended /\ fouts[c] = "response") => \E i \in mine : reqs[i].out = "ok"
           /\ (ended /\ fouts[c] = "raised") =>
                 /\ Cardinality(mine) = max_retries
                 /\ \A i \in mine : reqs[i].out \in {"http_error", "conn_error"}

(* A call answered on its retry after a non-2xx status, and a call that gave
   up after max_retries failures. *)
RetryPolicyWitness ==
    /\ \E i \in DOMAIN reqs : reqs[i].out = "http_error" /\
          \E j \in DOMAIN reqs : reqs[j].call = reqs[i].call /\ reqs[j].out = "ok"
    /\ \E c \in DOMAIN fouts : fouts[c] = "raised" /\ max_retries >= 2

(* C16 as stated: between the start of the last request of one fetch and the
   start of the first request of the next fetch through the same scraper
   instance at least delay_between_requests seconds pass. *)
RequestStartsSpaced ==
    \A i \in 1..(Len(reqs) - 1) :
        reqs[i + 1].call # reqs[i].call =>
            reqs[i + 1].t - reqs[i].t >= delay_between_requests

(* C17 as stated: for every job added through JobSchedulerService.add_job, no
   two executions of the same job id run at the same time. *)
SingleFlight ==
    \A id \in JobIds : instances[id] <= 1

(* C17 amended: no more executions of a job id overlap than the largest
   max_instances the id was added with, the job default counting for an add
   without one; an id only ever added with max_instances = 1 is single
   flight. *)
FlightsWithinMaxInstances ==
    \A id \in JobIds :
        /\ instances[id] <= maxReg[id]
        /\ maxReg[id] \in {0, 1, DefaultMaxInstances}

(* A job added with max_instances = 1 is stored on the running scheduler with
   one execution in progress, so a further due time starts nothing, while the
   other id, added without max_instances, has two in progress. *)
FlightsWitness ==
    \E id, other \in JobIds :
        /\ is_running
        /\ store[id] # NoJob /\ maxReg[id] = 1 /\ instances[id] = 1
        /\ ~MayRun(id)
        /\ maxReg[other] = DefaultMaxInstances /\ instances[other] = 2

(* C18 as stated: list_jobs never shows two entries with the same job id, and
   right after add_job the entry of that id is the job just added. *)
AddReplacesById ==
    /\ \A i, j \in DOMAIN list_jobs : i # j => list_jobs[i].id # list_jobs[j].id
    /\ lastOp.op = "add" =>
          /\ \E i \in DOMAIN list_jobs : list_jobs[i].id = lastOp.id
          /\ \A i \in DOMAIN list_jobs :
                list_jobs[i].id = lastOp.id => list_jobs[i].ver = lastOp.ver

(* C19: start on a running scheduler does not start it again, shutdown on a
   scheduler that was never created or is not running does nothing, and
   is_running tells whether the latest start or shutdown that took effect was
   a start. *)
LifecycleIdempotent ==
    /\ is_running <=> lastEffective = "start"
    /\ lastOp.op = "start" =>
          /\ is_running
          /\ lastOp.effective <=> ~lastOp.wasRunning
    /\ lastOp.op = "shutdown" =>
          /\ ~is_running
          /\ lastOp.effective <=> lastOp.wasRunning
          /\ ~lastOp.wasCreated => scheduler = "none"

(* start was called on a running scheduler, after jobs had been stored. *)
LifecycleIdempotentWitness ==
    /\ lastOp.op = "start"
    /\ lastOp.wasRunning
    /\ ~lastOp.effective
    /\ \E id \in JobIds : store[id] # NoJob

(* C20 as stated: remove_job never raises; for an id that list_jobs did not
   show it leaves the listed jobs as they were, and for a listed id it leaves
   no entry of that id and every other entry in place. *)
RemoveJobExact ==
    lastOp.op = "remove" =>
        LET before == lastOp.before
            Others(js) == SelectSeq(js, LAMBDA j : j.id # lastOp.id)
        IN /\ ~lastOp.raised
           /\ IF \E i \in DOMAIN before : before[i].id = lastOp.id
              THEN /\ \A i \in DOMAIN list_jobs : list_jobs[i].id # lastOp.id
                   /\ Others(list_jobs) = Others(before)
              ELSE list_jobs = before

(* C30 as stated: no two persisted documents of the same data source have the
   same origin URL, whatever scrape runs took place, overlapping runs and
   upstream documents replaced between two downloads included. *)
SourceUrlsUnique ==
    \A i, j \in DOMAIN notes :
        (i # j /\ notes[i].source = notes[j].source) => notes[i].url # notes[j].url

RECURSIVE NapSecs(_, _)
NapSecs(ns, c) ==
    IF ns = <<>> THEN 0
    ELSE (IF Head(ns).call = c THEN Head(ns).secs ELSE 0) + NapSecs(Tail(ns), c)

(* C29: _make_request sleeps 2^a seconds after the failed attempt a when a is
   not the last attempt, never after a successful or the last attempt, and
   with the default max_retries = 3 a call whose attempts all fail has slept
   1 + 2 = 3 seconds in all when it raises. *)
BackoffSchedule ==
    /\ \A i \in DOMAIN naps :
          /\ naps[i].secs = Pow2(naps[i].attempt)
          /\ naps[i].attempt < max_retries - 1
          /\ \E k \in DOMAIN reqs :
                /\ reqs[k].call = naps[i].call /\ reqs[k].attempt = naps[i].attempt
                /\ reqs[k].out # "ok"
          /\ \A j \in DOMAIN naps :
                (naps[j].call = naps[i].call /\ naps[j].attempt = naps[i].attempt) => j = i
    /\ \A k \in DOMAIN reqs :
          (reqs[k].out # "ok" /\ reqs[k].attempt < max_retries - 1) =>
              \E i \in DOMAIN naps :
                  naps[i].call = reqs[k].call /\ naps[i].attempt = reqs[k].attempt
    /\ fpc = "backoff" => wake = reqs[Len(reqs)].t + Pow2(reqs[Len(reqs)].attempt)
    /\ \A c \in DOMAIN fouts :
          (max_retries = DefaultMaxRetries /\ fouts[c] = "raised") => NapSecs(naps, c) = 3

(* With the default three attempts a call failed three times and raised. *)
BackoffScheduleWitness ==
    /\ max_retries = DefaultMaxRetries
    /\ \E c \in DOMAIN fouts :
          /\ fouts[c] = "raised"
          /\ NapSecs(naps, c) = 3
          /\ \E k \in DOMAIN reqs : reqs[k].call = c /\ reqs[k].attempt = 2

(* C28 as stated: a run that finds the data source inactive fetches nothing,
   persists nothing and returns success = false with 'Fonte de dados inativa';
   a run that finds no data source leaves an active one behind and goes on to
   fetch the listing. *)
SourceGate ==
    \A p \in ScrapeProcs :
        /\ sourceSeen[p] = "inactive" =>
              /\ scrapeResult[p] = Failure(InactiveMsg)
              /\ fetched[p] = "none"
              /\ downloaded[p] = {}
              /\ persistedBy[p] = {}
        /\ (sourceSeen[p] = "absent" /\ ~Active(p)) =>
              /\ dataSource = "active"
              /\ fetched[p] # "none"

(* C21 as stated: pause_job and resume_job of a listed job succeed, and a job
   pause_job was called for starts no execution until resume_job is called
   for it. *)
PauseHoldsJob ==
    [][/\ \A id \in pauseAsked : instances'[id] <= instances[id]
       /\ (mgrResult'.op \in {"pause", "resume"} /\ mgrResult'.id \in mgrResult'.listed) =>
              mgrResult'.success]_vars

(* C22: after setup_default_jobs each default job whose add_job raised is
   marked 'error' with its message in errors, each other one is marked
   'configured' and is listed, and nothing else is reported; the call returns
   its result whatever failed. *)
SetupIsolatesFailures ==
    (mgrResult.op = "setup" /\ lastOp.op = "setup") =>
        /\ mgrResult.scraping_job =
              (IF SCRAPING_JOB_ID \in mgrResult.failed THEN "error" ELSE "configured")
        /\ mgrResult.processing_job =
              (IF PROCESSING_JOB_ID \in mgrResult.failed THEN "error" ELSE "configured")
        /\ \A id \in JobIds \ mgrResult.failed : id \in Listed
        /\ Len(mgrResult.errors) = Cardinality(mgrResult.failed)
        /\ SCRAPING_JOB_ID \in mgrResult.failed =>
              \E i \in DOMAIN mgrResult.errors :
                  /\ Contains(AddFailMsg, mgrResult.errors[i])
                  /\ Contains(ScrapingErrPrefix, mgrResult.errors[i])
        /\ PROCESSING_JOB_ID \in mgrResult.failed =>
              \E i \in DOMAIN mgrResult.errors :
                  /\ Contains(AddFailMsg, mgrResult.errors[i])
                  /\ Contains(ProcessingErrPrefix, mgrResult.errors[i])

(* Registration of the scraping job raised on a running scheduler and the
   processing job was registered all the same. *)
SetupIsolatesFailuresWitness ==
    /\ mgrResult.op = "setup" /\ lastOp.op = "setup"
    /\ is_running
    /\ mgrResult.failed = {SCRAPING_JOB_ID}
    /\ mgrResult.processing_job = "configured"
    /\ store[PROCESSING_JOB_ID] # NoJob
    /\ store[SCRAPING_JOB_ID] = NoJob

(* C26 as stated: get_job_status returns the running flag and, for each
   default job id, 'active' when list_jobs shows the id and 'not_scheduled'
   otherwise. *)
StatusReportsJobs ==
    (mgrResult.op = "status" /\ lastOp.op = "list") =>
        /\ mgrResult.error = <<>>
        /\ mgrResult.scheduler_running = is_running
        /\ \A id \in JobIds :
              mgrResult.jobs[id] = (IF id \in Listed THEN "active" ELSE "not_scheduled")

(* C27: the jobs stored when the scheduler was shut down are listed once a
   fresh process has started the scheduler, no add_job or remove_job having
   been called in between. *)
JobsSurviveRestart ==
    (saved.valid /\ saved.restarted /\ is_running) =>
        \A j \in saved.jobs : \E i \in DOMAIN list_jobs : list_jobs[i] = j

(* A job was stored, the scheduler shut down, the process replaced, and the
   scheduler started in the fresh process. *)
JobsSurviveRestartWitness ==
    /\ saved.valid /\ saved.restarted /\ is_running
    /\ saved.jobs # {}
    /\ lastOp.op = "start" /\ lastOp.effective /\ ~lastOp.wasCreated

(* C24: the full-pipeline job calls the processing job only after its scrape
   call returned success, and then with max_items = 20; when the scrape call
   returned failure the pipeline makes no processing call at all - it reads no
   pending document and handles none - and its processing entry is the
   failure entry. *)
PipelineOrder ==
    LET sres == scrapeResult[PipeProc]
    IN /\ ppc = "idle" => runs[PipeProc] = 0 /\ mruns[PipeProc] = 0
       /\ ppc = "scrape" => mruns[PipeProc] = 0
       /\ ppc \in {"settle", "process"} => sres.returned /\ sres.success
       /\ mruns[PipeProc] > 0 =>
             /\ sres.returned /\ sres.success
             /\ pipeResult.scraping.set /\ pipeResult.scraping.success
             /\ asked[PipeProc] = PipelineMaxItems
       /\ (ppc = "done" /\ ~pipeResult.scraping.success) =>
             /\ sres.returned /\ ~sres.success
             /\ mruns[PipeProc] = 0
             /\ batch[PipeProc] = <<>>
             /\ calls[PipeProc] = <<>>
             /\ pipeResult.processing =
                   [set |-> TRUE, success |-> FALSE, error |-> ScrapingFailedMsg]

(* The pipeline returned after a failed scrape call while a pending document
   was waiting in the database. *)
PipelineOrderWitness ==
    /\ ppc = "done"
    /\ pipeResult.scraping.set /\ ~pipeResult.scraping.success
    /\ get_pending_notes(PipelineMaxItems) # <<>>

(* C25: every result a job function or manual trigger has returned that is not
   a success carries a non-empty error: the scrape results, the processing
   results, the pipeline's result and its two entries. *)
FailuresCarryError ==
    /\ \A p \in ScrapeProcs :
          (scrapeResult[p].returned /\ ~scrapeResult[p].success) =>
              scrapeResult[p].error # ""
    /\ \A p \in SummProcs :
          (summResult[p].returned /\ ~summResult[p].success) =>
              summResult[p].error # <<>>
    /\ (pipeResult.returned /\ ~pipeResult.success) => pipeResult.error # ""
    /\ (pipeResult.scraping.set /\ ~pipeResult.scraping.success) =>
          pipeResult.scraping.error # ""
    /\ (pipeResult.processing.set /\ ~pipeResult.processing.success) =>
          pipeResult.processing.error # <<>>

(* The scheduled scrape job returned a failure for an inactive data source and
   the pipeline returned with a failed scrape entry. *)
FailuresCarryErrorWitness ==
    /\ scrapeResult["scheduled"].returned
    /\ scrapeResult["scheduled"].error = InactiveMsg
    /\ pipeResult.returned
    /\ ~pipeResult.scraping.success
    /\ ~pipeResult.processing.success

(* C23: a job function that was called and is no longer running has returned
   a result dict, whatever was raised inside it, and both default job ids are
   still registered with the running scheduler. *)
JobsNeverRaise ==
    /\ \A p \in ScrapeProcs :
          (runs[p] > 0 /\ spc[p] = "idle") => scrapeResult[p].returned
    /\ \A p \in SummProcs :
          (mruns[p] > 0 /\ mpc[p] = "idle") => summResult[p].returned
    /\ ppc = "done" => pipeResult.returned
    /\ is_running
    /\ JobIds \subseteq Listed

(* The scheduled scrape job failed on the listing fetch and returned, and its
   job id is still listed. *)
JobsNeverRaiseWitness ==
    /\ runs["scheduled"] > 0
    /\ fetched["scheduled"] = "failed"
    /\ scrapeResult["scheduled"].returned
    /\ ~scrapeResult["scheduled"].success
    /\ SCRAPING_JOB_ID \in Listed

(* Index of the first listing row with this URL. *)
FirstRow(u) == CHOOSE k \in DOMAIN listing :
                   /\ listing[k].url = u
                   /\ \A m \in 1..(k - 1) : listing[m].url # u

(* C31: the items extracted from the listing never hold a URL twice, hold
   every URL of the listing, are the first rows of their URLs in listing
   order, and total_found of a run that fetched the listing is the number of
   the extracted items. *)
ListingDeduplicated ==
    /\ LET out == _extract_items_from_listing(listing)
       IN /\ \A i, j \in DOMAIN out : i # j => out[i].url # out[j].url
          /\ \A k \in DOMAIN listing : \E i \in DOMAIN out : out[i].url = listing[k].url
          /\ \A i \in DOMAIN out :
                /\ \E k \in DOMAIN listing : listing[k].url = out[i].url
                /\ out[i] = listing[FirstRow(out[i].url)]
          /\ \A i, j \in DOMAIN out :
                i < j => FirstRow(out[i].url) < FirstRow(out[j].url)
    /\ \A p \in ScrapeProcs :
          /\ \A i, j \in DOMAIN items[p] : i # j => items[p][i].url # items[p][j].url
          /\ fetched[p] = "ok" => stats[p].total_found = Len(items[p])

(* A run fetched a listing whose first and third rows carry the same URL with
   different dates, and kept the first and the second row. *)
ListingDeduplicatedWitness ==
    \E p \in ScrapeProcs :
        /\ fetched[p] = "ok"
        /\ upVersion = 0
        /\ Len(listing) = 3
        /\ listing[1].url = listing[3].url
        /\ listing[1] # listing[3]
        /\ listing[2].url # listing[1].url
        /\ items[p] = <<listing[1], listing[2]>>
        /\ stats[p].total_found = 2

(* C32 as stated: when the document of an item cannot be read by either PDF
   library and its hash is new at the insert, handling the item persists one
   pending document with the placeholder preview and leaves the run's errors
   count as it was. *)
ExtractionFailureNotFatal ==
    [][\A p \in ScrapeProcs :
          (/\ spc[p] = "create"
           /\ Unreadable(cur[p].content)
           /\ HashUniqueOk(cur[p].hash)
           /\ (spc'[p] # "create" \/ idx'[p] # idx[p])) =>
              /\ Len(notes') = Len(notes) + 1
              /\ notes'[Len(notes')].status = "pending"
              /\ notes'[Len(notes')].preview = Slice(PlaceholderPreview, PreviewCap)
              /\ notes'[Len(notes')].hash = cur[p].hash
              /\ stats'[p].errors = stats[p].errors
              /\ raised'[p] = raised[p]]_vars

(* C36 as stated: a scrape run that returned its statistics counted every
   candidate exactly once, total_found = new_items + duplicates_skipped +
   errors, and persisted as many documents as new_items says. *)
StatsAccountForCandidates ==
    \A p \in ScrapeProcs :
        (scrapeResult[p].returned /\ scrapeResult[p].success) =>
            LET st == scrapeResult[p].stats
            IN /\ st.total_found = st.new_items + st.duplicates_skipped + st.errors
               /\ Cardinality(persistedBy[p]) = st.new_items

(* C33: with the processing job executed again and again with a positive
   limit, every document that is pending is eventually picked by a run and
   reaches processed or error. *)
PendingEventuallyHandled ==
    \A n \in 1..MaxNotes :
        (n \in DOMAIN notes /\ notes[n].status = "pending")
            ~> (n \in DOMAIN notes /\ notes[n].status \in {"processed", "error"})

(* Two documents came in, the runs took one document each, and the newer one
   has been handled after the older one. *)
PendingEventuallyHandledWitness ==
    /\ Len(notes) >= 2
    /\ asked["scheduled"] = 1
    /\ batch["scheduled"] = <<2>>
    /\ notes[1].status \in {"processed", "error"}
    /\ notes[2].status \in {"processed", "error"}

(* C34 as stated: over all runs of the processing job the LLM is invoked at
   most once for a document. *)
LLMOncePerDocument ==
    \A n \in DOMAIN llmCalls : llmCalls[n] <= 1

(* A process_technical_note call on document n is between its status write
   and its return. *)
InProgress(n) ==
    \E p \in SummProcs :
        /\ mpc[p] \in {"mark", "llm", "except", "finish"}
        /\ CurNote(p) = n

(* C37 as stated: a document no process_technical_note call is working on has
   a summary exactly when its status is processed. *)
SummaryIffProcessed ==
    \A n \in DOMAIN notes :
        ~InProgress(n) => (HasSummary(n) <=> notes[n].status = "processed")

(* C38 as stated: every _make_request call that has ended either returned a
   response or raised, whatever max_retries the scraper was built with. *)
RequestAlwaysAnswers ==
    \A c \in DOMAIN fouts : fouts[c] \in {"response", "raised"}

(* C39 as stated: after remove_all_jobs an id reported in 'removed' is no
   longer listed by the scheduler, success is reported only when the
   scheduler raised for neither default job, and every removal the scheduler
   refused has an entry in the errors list. *)
RemoveAllReportsTruth ==
    mgrResult.op = "remove_all" =>
        /\ \A i \in DOMAIN mgrResult.removed : mgrResult.removed[i] \notin Listed
        /\ mgrResult.success => mgrResult.failed = {}
        /\ Len(mgrResult.errors) = Cardinality(mgrResult.failed)

(* C40 as stated: a pipeline call that returned reports success = true with
   no error text, since no exception leaves either stage; after a scrape
   stage that returned success = false the scraping entry is that failed
   result and the processing entry is {success: false, error: 'Scraping
   falhou'}, the processing stage not having been called; after a successful
   scrape both entries are the two stage results. *)
PipelineSuccessMeansNoException ==
    pipeResult.returned =>
        LET scr == scrapeResult[PipeProc]
            prc == summResult[PipeProc]
        IN /\ pipeResult.success
           /\ pipeResult.error = ""
           /\ scr.returned
           /\ pipeResult.scraping =
                 [set |-> TRUE, success |-> scr.success, error |-> scr.error]
           /\ ~scr.success =>
                 /\ pipeResult.processing =
                       [set |-> TRUE, success |-> FALSE, error |-> ScrapingFailedMsg]
                 /\ ~prc.returned
           /\ scr.success =>
                 /\ prc.returned
                 /\ pipeResult.processing =
                       [set |-> TRUE, success |-> prc.success, error |-> prc.error]

(* The pipeline returned after a scrape stage that reported failure. *)
PipelineSuccessMeansNoExceptionWitness ==
    /\ pipeResult.returned
    /\ pipeResult.success
    /\ ~pipeResult.scraping.success
    /\ ~scrapeResult[PipeProc].success

(* C35: a start_jobs process that a SIGINT or SIGTERM ended called the
   scheduler shutdown first, so the scheduler was not running when the
   process exited, in daemon and in interactive mode and at whatever point of
   handle() the signal arrived; and a daemon loop round that found the
   scheduler not running reported the error and ended the loop, the process
   returning with the scheduler stopped. *)
SignalStopsScheduler ==
    /\ cmd.pc = "exited" =>
          /\ cmd.signal \in {"SIGINT", "SIGTERM"}
          /\ ~cmd.runningAtExit
          /\ ~is_running
    /\ cmd.found =>
          /\ cmd.mode = "daemon"
          /\ cmd.pc = "returned"
          /\ cmd.reported
          /\ ~cmd.runningAtExit
    /\ (cmd.pc = "returned" /\ cmd.mode = "daemon" /\ ~lastOp.raised) => cmd.found

(* A signal ended the command, in daemon or interactive mode, while the
   scheduler was running: the handler's shutdown call stopped it. *)
SignalStopsSchedulerWitness ==
    /\ cmd.pc = "exited"
    /\ cmd.mode \in {"daemon", "interactive"}
    /\ lastOp.op = "shutdown"
    /\ lastOp.effective
    /\ lastOp.wasRunning

====
